---- MODULE Spec2Model ----
(***************************************************************************)
(* DVID data source of neuroglancer: the credentialed transport            *)
(* (datasource/dvid/api.ts) and the mesh fragment download with its merge  *)
(* graph resolution (datasource/dvid/backend.ts, DVIDMeshSource).          *)
(*                                                                         *)
(* Execution is single threaded and runs in turns of the microtask queue:  *)
(* a request settles in one turn, the reaction that awaits it runs in a    *)
(* later one, up to its next await or return, and a promise that adopts    *)
(* another one, or an await of a chain of reactions, goes on later still.  *)
(* Every action below is one such turn;                                    *)
(* the token may fire and another call may run between any two of them.    *)
(***************************************************************************)
EXTENDS Integers, Sequences, FiniteSets, TLC

VARIABLES
    provider,     \* the CredentialsProvider: [generation, token]
    baseUrl,      \* parameters.baseUrl, reduced to its leading scheme
    cancelled,    \* the CancellationToken of the operation has fired
    retryBudget,  \* retryable (401/403/504) answers the server will still give
    req,          \* the pending (or last settled) makeRequestWithCredentials call
    stack,        \* activations of downloadMergeFragment, innermost last
    calls,        \* number of downloadMergeFragment invocations so far
    chunk,        \* the FragmentChunk: [assigned, geometry]
    result,       \* the promise returned by the operation
    hist,         \* history of the operation (observations only)
    annotation,   \* chunk.annotation of the AnnotationMetadataChunk
    buffers,      \* the ArrayBuffers handed to the fragment decoders
    fragment,     \* what the decoders assigned to their chunk, or their error
    peer,         \* a second downloadFragment call, waiting for its next turn
    edit,         \* the call of add, update or delete: [op, user, annotation]
    reaction      \* what the operation has queued for a later microtask turn

vars == <<provider, baseUrl, cancelled, retryBudget, req, stack, calls, chunk, result, hist,
          annotation, buffers, fragment, peer, edit, reaction>>

----------------------------------------------------------------------------
(* Bounds *)

\* retryable answers (401, 403, 504) the server gives to one transport call
MaxFaults == 3
\* invocations of downloadMergeFragment in one downloadFragment
MaxCalls == 2

----------------------------------------------------------------------------
(* Values *)

Keys == {"1", "2"}
\* chunk.fragmentId of the chunk being downloaded
fragmentId == "1"
Schemes == {"https", "http"}
Tokens == {"", "t1", "t2"}
FatalStatuses == {404, 500}
UnauthorizedStatuses == {401, 403}
TransientStatuses == {504}

\* JSON bodies of a .merge response: an array of child keys, or a value that
\* is not iterable (null, a number, an object)
MergeDocs ==
    {[iterable |-> TRUE, keys |-> <<>>]}
    \cup {[iterable |-> TRUE, keys |-> <<a>>] : a \in Keys}
    \cup {[iterable |-> TRUE, keys |-> <<a, b>>] : a \in Keys, b \in Keys}
    \cup {[iterable |-> FALSE, keys |-> <<>>]}

\* binary bodies of a .ngmesh response: the leaf of a key, possibly shorter
\* than its 4 byte header
LeafBodies(key) == {[key |-> key, truncated |-> t] : t \in BOOLEAN}

NoReq == [wait |-> "none"]
Unset == [state |-> "unset"]
NotDecoded == [state |-> "none"]
NoPeer == [state |-> "none"]
NoEdit == [op |-> "none"]
\* the reactions a call queues: the one awaiting its request, which settled
\* with res; the one awaiting a downloadMergeFragment, which returned data;
\* the promise of downloadFragment adopting the promise its handler returned
NoReaction == [run |-> "none"]
RequestSettled(res) == [run |-> "request", res |-> res]
Returned(data) == [run |-> "return", data |-> data]
Adopts(outcome) == [run |-> "settle", outcome |-> outcome]
ChainSettled == [run |-> "resume"]
Pending == [state |-> "pending"]
Resolved == [state |-> "resolved"]
Rejected(e) == [state |-> "rejected", error |-> e]

HttpError(status) == [kind |-> "http", status |-> status]
CancelError == [kind |-> "cancel", status |-> 0]
DecodeError == [kind |-> "decode", status |-> 0]
TypeError == [kind |-> "type", status |-> 0]
NoError == [kind |-> "none", status |-> 0]

Ok(body) == [ok |-> TRUE, body |-> body]
Fail(e) == [ok |-> FALSE, error |-> e]

----------------------------------------------------------------------------
(* Credentialed transport (api.ts) *)

\* `Bearer ${credentials}`
Bearer(credentials) == <<"Bearer", credentials>>
NoHeader == <<>>

\* { method: httpCall.method, body: httpCall.payload }
RequestInit(httpCall) ==
    [method |-> httpCall.method, body |-> httpCall.payload,
     Authorization |-> NoHeader, credentials |-> "default"]

\* input.startsWith('https')
StartsWithHttps(input) == input.base = "https"

\* the second applyCredentials of api.ts: the headers are built anew, with the
\* Authorization header alone when a credential is held
applyCredentialsReplacingHeaders(input, credentials, init) ==
    IF StartsWithHttps(input)
    THEN IF credentials # ""
         THEN [init EXCEPT !.Authorization = Bearer(credentials)]
         ELSE [init EXCEPT !.Authorization = NoHeader, !.credentials = "include"]
    ELSE init

\* applyCredentials that asks for the browser's credentials on every https
\* request, with or without a token
applyCredentialsAlwaysInclude(input, credentials, init) ==
    IF StartsWithHttps(input)
    THEN IF credentials # ""
         THEN [init EXCEPT !.Authorization = Bearer(credentials),
                           !.credentials = "include"]
         ELSE [init EXCEPT !.credentials = "include"]
    ELSE init

\* applyCredentials without the test of the scheme
applyCredentialsAnyScheme(input, credentials, init) ==
    IF credentials # ""
    THEN [init EXCEPT !.Authorization = Bearer(credentials)]
    ELSE [init EXCEPT !.credentials = "include"]

\* the first applyCredentials of api.ts: newInit = { ...init } with the
\* Authorization header added to the headers, or with credentials = 'include'
applyCredentials(input, credentials, init) ==
    IF StartsWithHttps(input)
    THEN IF credentials # ""
         THEN [init EXCEPT !.Authorization = Bearer(credentials)]
         ELSE [init EXCEPT !.credentials = "include"]
    ELSE init

\* errorHandler with 401 and 403 answered 'retry' instead of 'refresh'
errorHandlerRetryUnauthorized(status) ==
    IF status = 403 \/ status = 401 THEN "retry"
    ELSE IF status = 504 THEN "retry"
    ELSE "throw"

\* errorHandler with 504 answered 'refresh' instead of 'retry'
errorHandlerRefreshTimeout(status) ==
    IF status = 403 \/ status = 401 THEN "refresh"
    ELSE IF status = 504 THEN "refresh"
    ELSE "throw"

\* errorHandler that returns 'retry' instead of throwing the error
errorHandlerNoThrow(status) ==
    IF status = 403 \/ status = 401 THEN "refresh"
    ELSE "retry"

\* the errorHandler fetchWithDVIDCredentials passes to fetchWithCredentials
errorHandler(status) ==
    IF status = 403 \/ status = 401 THEN "refresh"
    ELSE IF status = 504 THEN "retry"
    ELSE "throw"

\* applyCredentials writing into the init it was given (newInit = init)
InitAfterApplyInPlace(input, credentials, init) ==
    applyCredentials(input, credentials, init)

\* the caller's init after applyCredentials has run: newInit = { ...init } is a
\* copy, and headers and credentials are assigned on the copy
InitAfterApply(input, credentials, init) == init

\* one attempt: cancellableFetchOk(input, applyCredentials(credentials, init), ...)
Attempt(r, credentials) ==
    [r EXCEPT !.wait = "response",
              !.credentials = credentials,
              !.init = InitAfterApply(r.input, credentials.token, r.init),
              !.attempts = Append(r.attempts,
                  [input |-> r.input,
                   init |-> applyCredentials(r.input, credentials.token, r.init),
                   credentials |-> credentials.token,
                   generation |-> credentials.generation])]

\* fetchWithCredentials up to its first await of a response: the credentials
\* the provider holds are taken and the first attempt is sent
fetchWithCredentials(kind, input, init, cancellable, credentials) ==
    Attempt([kind |-> kind, input |-> input, init |-> init,
             cancellable |-> cancellable, wait |-> "start",
             credentials |-> credentials, attempts |-> <<>>,
             statuses |-> <<>>, refreshes |-> 0, ok |-> FALSE,
             error |-> NoError, truncated |-> FALSE],
            credentials)

fetchWithDVIDCredentials(kind, input, init, cancellable, credentials) ==
    fetchWithCredentials(kind, input, init, cancellable, credentials)

\* makeRequestWithCredentials that leaves the token out of the call, so that
\* fetchWithDVIDCredentials falls back on its default, uncancelableToken
makeRequestWithoutToken(kind, httpCall, cancellationToken, credentials) ==
    fetchWithDVIDCredentials(kind, httpCall.url, RequestInit(httpCall),
                             FALSE, credentials)

\* cancellationToken is handed on unchanged
makeRequestWithCredentials(kind, httpCall, cancellationToken, credentials) ==
    fetchWithDVIDCredentials(kind, httpCall.url, RequestInit(httpCall),
                             cancellationToken, credentials)

\* the token this call was given has fired
ObservesCancel(r) == r.cancellable /\ cancelled

InFlight == req.wait = "response"
AwaitingCredentials == req.wait = "credentials"

----------------------------------------------------------------------------
(* Mesh fragments (backend.ts) *)

\* `${keyBaseUrl}/${key}` + suffix
KeyUrl(key, suffix) == [base |-> baseUrl, key |-> key, suffix |-> suffix]
GetCall(key, suffix) == [method |-> "GET", url |-> KeyUrl(key, suffix), payload |-> "none"]

NoIssue == [kind |-> "none", key |-> "", suffix |-> ""]
IssueOf(kind, key, suffix) == [kind |-> kind, key |-> key, suffix |-> suffix]

\* dv.getUint32(0, true) throws a RangeError on a buffer shorter than 4 bytes
HeaderReadable(response) == ~response.truncated

\* decodeFragmentChunk with the geometry kept in one place for every chunk of
\* the source: a decode adds to what the other call assigned
decodeFragmentChunkShared(c, response) ==
    IF HeaderReadable(response)
    THEN LET other == IF peer = NoPeer THEN c ELSE peer.chunk IN
         [threw |-> FALSE,
          chunk |-> [assigned |-> other.assigned + 1,
                     geometry |-> other.geometry \o <<response.key>>]]
    ELSE [threw |-> TRUE, chunk |-> c]

\* decodeFragmentChunk(chunk, response): [threw, chunk]
decodeFragmentChunk(c, response) ==
    IF HeaderReadable(response)
    THEN [threw |-> FALSE,
          chunk |-> [assigned |-> c.assigned + 1, geometry |-> <<response.key>>]]
    ELSE [threw |-> TRUE, chunk |-> c]

\* decodeFragmentChunkM(chunk, responses): [threw, chunk]
decodeFragmentChunkM(c, responses) ==
    IF \A n \in 1..Len(responses) : HeaderReadable(responses[n])
    THEN [threw |-> FALSE,
          chunk |-> [assigned |-> c.assigned + 1,
                     geometry |-> [n \in 1..Len(responses) |-> responses[n].key]]]
    ELSE [threw |-> TRUE, chunk |-> c]

\* an activation of downloadMergeFragment(keyBaseUrl, keys, masterKey, token)
Frame(keys, masterKey) == [keys |-> keys, masterKey |-> masterKey, i |-> 1, data |-> <<>>]

Top(stk) == stk[Len(stk)]
Below(stk) == SubSeq(stk, 1, Len(stk) - 1)

\* the running operation: what the handlers read and write
Machine ==
    [stack |-> stack, calls |-> calls, chunk |-> chunk, result |-> result,
     hist |-> hist, annotation |-> annotation, issue |-> NoIssue,
     reaction |-> NoReaction]

\* a request is made; the history notes it
Issue(m, kind, key, suffix) ==
    [m EXCEPT !.issue = IssueOf(kind, key, suffix),
              !.hist.fetches = @ + 1,
              !.hist.issuedAfterCancelSeen =
                  IF m.hist.cancelSeenAt # "none" /\ kind # "fallback" THEN @ + 1 ELSE @,
              !.hist.fallbackFetches = IF kind = "fallback" THEN @ + 1 ELSE @,
              !.hist.mergeFetches = IF kind = "merge" THEN @ + 1 ELSE @,
              !.hist.leafFetches = IF kind \in {"masterleaf", "leaf"} THEN @ + 1 ELSE @]

\* downloadFragment without its .catch: the primary path's error is the result
downloadFragmentNoCatch(m, e) ==
    [m EXCEPT !.stack = <<>>, !.hist.primaryError = e, !.result = Rejected(e)]

\* downloadFragment, the .catch((e) => ...) of the primary path: the leaf of the
\* fragment id is requested
downloadFragmentCatch(m, e) ==
    Issue([m EXCEPT !.stack = <<>>, !.hist.primaryError = e],
          "fallback", fragmentId, "ngmesh")

\* downloadFragment with the fallback chained by .then instead of .catch: it
\* follows a primary path that succeeded too
downloadFragmentDecodeThen(m, data) ==
    LET d == decodeFragmentChunkM(m.chunk, data)
        n == [m EXCEPT !.hist.returned = TRUE,
                       !.hist.returnedKeys = [j \in 1..Len(data) |-> data[j].key],
                       !.hist.returnedPaths = [j \in 1..Len(data) |-> data[j].path]]
    IN IF d.threw
       THEN downloadFragmentCatch(n, DecodeError)
       ELSE Issue([n EXCEPT !.stack = <<>>, !.chunk = d.chunk, !.hist.decodedM = TRUE],
                  "fallback", fragmentId, "ngmesh")

\* downloadFragment, .then(data => decodeFragmentChunkM(chunk, data)): the
\* promise of downloadFragment adopts the resolved promise of this handler
downloadFragmentDecode(m, data) ==
    LET d == decodeFragmentChunkM(m.chunk, data)
        n == [m EXCEPT !.hist.returned = TRUE,
                       !.hist.returnedKeys = [j \in 1..Len(data) |-> data[j].key],
                       !.hist.returnedPaths = [j \in 1..Len(data) |-> data[j].path]]
    IN IF d.threw
       THEN downloadFragmentCatch(n, DecodeError)
       ELSE [n EXCEPT !.stack = <<>>, !.chunk = d.chunk, !.reaction = Adopts(Resolved),
                      !.hist.decodedM = TRUE]

\* the fallback rejecting with the error the .catch received (e) instead of
\* its own
downloadFragmentFallbackFirstError(m, res) ==
    IF ~res.ok THEN [m EXCEPT !.result = Rejected(m.hist.primaryError)]
    ELSE LET d == decodeFragmentChunk(m.chunk, res.body) IN
         IF d.threw THEN [m EXCEPT !.result = Rejected(m.hist.primaryError)]
         ELSE [m EXCEPT !.chunk = d.chunk, !.reaction = Adopts(Resolved)]

\* downloadFragment, the fallback's .then(response => decodeFragmentChunk(chunk, response)):
\* the promise of downloadFragment adopts the promise the .catch handler returned
downloadFragmentFallback(m, res) ==
    IF ~res.ok THEN [m EXCEPT !.result = Rejected(res.error)]
    ELSE LET d == decodeFragmentChunk(m.chunk, res.body) IN
         IF d.threw THEN [m EXCEPT !.result = Rejected(DecodeError)]
         ELSE [m EXCEPT !.chunk = d.chunk, !.reaction = Adopts(Resolved)]

\* the positions the activations are at in their documents, outermost first
PathOf(stk) == [k \in 1..Len(stk) |-> stk[k].i]

\* a leaf as an activation holds it: the response and, as history, the path
\* of child positions it was requested at
Held(response, path) ==
    [key |-> response.key, truncated |-> response.truncated, path |-> path]

\* the loop body with the master key test left out: every key is asked for
\* its .merge document
RequestForKeyNoMaster(m, key) ==
    Issue(m, "merge", key, "merge")

\* the loop body with a guard against keys under resolution: such a key is
\* read as a leaf
RequestForKeyVisited(m, key) ==
    IF Top(m.stack).masterKey = key
        \/ \E k \in 1..Len(m.stack) : m.stack[k].masterKey = key
    THEN Issue(m, IF Top(m.stack).masterKey = key THEN "masterleaf" ELSE "leaf",
               key, "ngmesh")
    ELSE Issue(m, "merge", key, "merge")

\* the body of the for loop up to its await: String(masterKey) === String(key)
\* chooses between the request of the leaf and the request of key.merge
RequestForKey(m, key) ==
    IF Top(m.stack).masterKey = key
    THEN Issue(m, "masterleaf", key, "ngmesh")
    ELSE Issue(m, "merge", key, "merge")

\* the nested result put in front of the caller's data (unshift for push)
ReturnToCallerPrepend(p, f) ==
    [p EXCEPT !.data = f.data \o p.data]

\* result => { data.push(...result) } of the caller p of the activation f
\* that returns
ReturnToCaller(p, f) ==
    [p EXCEPT !.data = p.data \o f.data]

\* downloadMergeFragment from the head of its for loop to its next await, or
\* to its return data: the activation ends and the .then of its caller is
\* queued with the data
downloadMergeFragment(m) ==
    LET f == Top(m.stack) IN
    IF f.i > Len(f.keys)
    THEN [m EXCEPT !.stack = Below(m.stack), !.reaction = Returned(f.data)]
    ELSE RequestForKey(m, f.keys[f.i])

\* the await of the iteration is over: the for loop goes to its next key
NextKey(m) ==
    LET f == Top(m.stack) IN
    downloadMergeFragment(
        [m EXCEPT !.stack = Append(Below(m.stack), [f EXCEPT !.i = f.i + 1])])

\* the nested downloadMergeFragment has returned: the caller's
\* .then(result => { data.push(...result) }) runs.  The .catch after it passes
\* the value on, and the caller's loop goes on when its await of the chain
\* resumes
MergeReturned(m, returned) ==
    [m EXCEPT !.stack = Append(Below(m.stack), ReturnToCaller(Top(m.stack), returned)),
              !.reaction = ChainSettled]

\* the end of an iteration that received a leaf: the iteration of the master
\* key awaits the request itself and its loop goes on in the same turn; the
\* async callback of .catch ends, and the caller's loop goes on when its await
\* of the chain resumes
LeafReceived(m, key) ==
    IF Top(m.stack).masterKey = key THEN NextKey(m)
    ELSE [m EXCEPT !.reaction = ChainSettled]

\* the leaf request without its try/catch: a failure rejects downloadMergeFragment
\* and reaches the .catch of downloadFragment
LeafSettledNoCatch(m, key, res) ==
    IF res.ok
    THEN LET f == Top(m.stack)
             g == [f EXCEPT !.data = Append(f.data, Held(res.body, PathOf(m.stack)))]
         IN LeafReceived(
                [m EXCEPT !.stack = Append(Below(m.stack), g),
                          !.hist.leafLog = Append(@, key)], key)
    ELSE downloadFragmentCatch(
             [m EXCEPT !.hist.failedBranches =
                          IF Top(m.stack).masterKey # key THEN @ + 1 ELSE @],
             res.error)

\* the leaf request without data.push(response): the response is dropped
LeafSettledDrop(m, key, res) ==
    LET f == Top(m.stack)
        h == IF res.ok THEN [m.hist EXCEPT !.leafLog = Append(@, key)]
             ELSE IF f.masterKey # key THEN [m.hist EXCEPT !.failedBranches = @ + 1]
             ELSE [m.hist EXCEPT !.masterLeafFailures = @ + 1]
    IN LeafReceived([m EXCEPT !.hist = h], key)

\* the leaf request made again when it fails
LeafSettledRetry(m, key, res) ==
    IF res.ok
    THEN LET f == Top(m.stack)
             g == [f EXCEPT !.data = Append(f.data, Held(res.body, PathOf(m.stack)))]
         IN LeafReceived(
                [m EXCEPT !.stack = Append(Below(m.stack), g),
                          !.hist.leafLog = Append(@, key)], key)
    ELSE Issue(m, IF Top(m.stack).masterKey = key THEN "masterleaf" ELSE "leaf",
               key, "ngmesh")

\* a leaf request of downloadMergeFragment settles: its try { data.push(response) }
\* catch (e) { console.log(e) }, then the end of the iteration
LeafSettled(m, key, res) ==
    LET f == Top(m.stack)
        g == [f EXCEPT !.data = IF res.ok THEN Append(f.data, Held(res.body, PathOf(m.stack)))
                                ELSE f.data]
        h == IF res.ok THEN [m.hist EXCEPT !.leafLog = Append(@, key)]
             ELSE IF f.masterKey # key THEN [m.hist EXCEPT !.failedBranches = @ + 1]
             ELSE [m.hist EXCEPT !.masterLeafFailures = @ + 1]
    IN LeafReceived([m EXCEPT !.stack = Append(Below(m.stack), g), !.hist = h], key)

\* the key.merge request without its .catch: a failure rejects
\* downloadMergeFragment and reaches the .catch of downloadFragment
MergeSettledNoCatch(m, key, res) ==
    IF res.ok /\ res.body.iterable
    THEN downloadMergeFragment(
             [m EXCEPT !.stack = Append(m.stack, Frame(res.body.keys, key)),
                       !.calls = m.calls + 1,
                       !.hist.occurrences = @ + Len(res.body.keys)])
    ELSE downloadFragmentCatch(m, IF res.ok THEN TypeError ELSE res.error)

\* the nested call given the master key of its caller
MergeSettledSameMaster(m, key, res) ==
    IF res.ok /\ res.body.iterable
    THEN downloadMergeFragment(
             [m EXCEPT !.stack = Append(m.stack,
                                        Frame(res.body.keys, Top(m.stack).masterKey)),
                       !.calls = m.calls + 1,
                       !.hist.occurrences = @ + Len(res.body.keys)])
    ELSE Issue(m, "leaf", key, "ngmesh")

\* the nested call made without await: the caller's loop has gone to its next
\* key while the nested call resolves the document
MergeSettledNoAwait(m, key, res) ==
    IF res.ok /\ res.body.iterable
    THEN LET p == Top(m.stack) IN
         downloadMergeFragment(
             [m EXCEPT !.stack = Append(Append(Below(m.stack), [p EXCEPT !.i = p.i + 1]),
                                        Frame(res.body.keys, key)),
                       !.calls = m.calls + 1,
                       !.hist.occurrences = @ + Len(res.body.keys)])
    ELSE Issue(m, "leaf", key, "ngmesh")

\* the caller pushing the key.merge response itself before the nested call
\* resolves it
MergeSettledKeepsDocument(m, key, res) ==
    IF res.ok /\ res.body.iterable
    THEN LET p == Top(m.stack)
             q == [p EXCEPT !.data = Append(p.data,
                                  Held([key |-> key, truncated |-> FALSE],
                                       PathOf(m.stack)))]
         IN downloadMergeFragment(
                [m EXCEPT !.stack = Append(Append(Below(m.stack), q),
                                           Frame(res.body.keys, key)),
                          !.calls = m.calls + 1,
                          !.hist.occurrences = @ + Len(res.body.keys)])
    ELSE Issue(m, "leaf", key, "ngmesh")

\* the key.merge request of downloadMergeFragment settles: the nested call on
\* its response with masterKey = key, or the .catch that requests the key's leaf
MergeSettled(m, key, res) ==
    IF res.ok /\ res.body.iterable
    THEN downloadMergeFragment(
             [m EXCEPT !.stack = Append(m.stack, Frame(res.body.keys, key)),
                       !.calls = m.calls + 1,
                       !.hist.occurrences = @ + Len(res.body.keys)])
    ELSE Issue(m, "leaf", key, "ngmesh")

\* downloadFragment that calls downloadMergeFragment without the fragment id
\* as master key
TopMergeSettledNoMaster(m, res) ==
    IF ~res.ok THEN downloadFragmentCatch(m, res.error)
    ELSE IF ~res.body.iterable THEN downloadFragmentCatch(m, TypeError)
    ELSE downloadMergeFragment(
             [m EXCEPT !.stack = <<Frame(res.body.keys, "none")>>,
                       !.calls = m.calls + 1,
                       !.hist.occurrences = @ + Len(res.body.keys)])

\* the fragmentId.merge request of downloadFragment settles
TopMergeSettled(m, res) ==
    IF ~res.ok THEN downloadFragmentCatch(m, res.error)
    ELSE IF ~res.body.iterable THEN downloadFragmentCatch(m, TypeError)
    ELSE downloadMergeFragment(
             [m EXCEPT !.stack = <<Frame(res.body.keys, fragmentId)>>,
                       !.calls = m.calls + 1,
                       !.hist.occurrences = @ + Len(res.body.keys)])

\* a caller that awaits one request and nothing else (DVIDSkeletonSource.download)
SingleSettled(m, res) ==
    IF res.ok THEN [m EXCEPT !.result = Resolved]
    ELSE [m EXCEPT !.result = Rejected(res.error)]

\* JSON values of the elements response: an entry is null or an object whose
\* Kind and Pos may be missing or of the wrong type ("none"); its Prop is
\* missing or no object (NoProp), or an object whose 'body ID' is missing
\* (""), a decimal number or another string
NullEntry == [present |-> FALSE]
NoProp == [object |-> FALSE, bodyID |-> ""]
BodyIds == {"", "7", "abc"}
Props == {NoProp} \cup [object : {TRUE}, bodyID : BodyIds]
AnnotationEntries ==
    {NullEntry}
    \cup [present : {TRUE}, Kind : {"Note", "PostSyn", "Unknown", "none"},
          Pos : {"1_2_3", "none"}, Prop : Props]
MetadataResponses ==
    {[shape |-> "null", elements |-> <<>>], [shape |-> "object", elements |-> <<>>],
     [shape |-> "array", elements |-> <<>>]}
    \cup {[shape |-> "array", elements |-> <<e>>] : e \in AnnotationEntries}
    \cup {[shape |-> "array", elements |-> <<e, f>>] :
              e \in {NullEntry,
                     [present |-> TRUE, Kind |-> "Note", Pos |-> "1_2_3",
                      Prop |-> [object |-> TRUE, bodyID |-> "7"]],
                     [present |-> TRUE, Kind |-> "PostSyn", Pos |-> "none",
                      Prop |-> [object |-> TRUE, bodyID |-> ""]]},
              f \in {NullEntry, [present |-> TRUE, Kind |-> "Note", Pos |-> "1_2_3",
                                 Prop |-> [object |-> TRUE, bodyID |-> "abc"]]}}

Null == [state |-> "null"]
Parsed(value) == [threw |-> FALSE, value |-> value]
ParseThrew == [threw |-> TRUE, value |-> Null]

\* Uint64.parseString(v): the value of a decimal string, a throw for any
\* other string
parseString(v) ==
    IF v = "7" THEN [threw |-> FALSE, value |-> 7] ELSE [threw |-> TRUE, value |-> 0]

\* parseUint64ToArray(out, v) on an empty out: v is parsed unless it is falsy
parseUint64ToArray(v) ==
    IF v = "" THEN [threw |-> FALSE, out |-> <<>>]
    ELSE LET parsed == parseString(v) IN
         IF parsed.threw THEN [threw |-> TRUE, out |-> <<>>]
         ELSE [threw |-> FALSE, out |-> <<parsed.value>>]

\* parseAnnotation(entry): null for a falsy entry and for Kind 'Unknown'; the
\* verify functions throw on a missing or ill-typed Kind, Prop or Pos; for
\* Kind 'Note' the 'body ID' of Prop is parsed into relatedSegments[0], and
\* that throws when the string is no number
parseAnnotation(entry) ==
    IF ~entry.present THEN Parsed(Null)
    ELSE IF entry.Kind = "none" THEN ParseThrew
    ELSE IF entry.Kind = "Unknown" THEN Parsed(Null)
    ELSE IF ~entry.Prop.object \/ entry.Pos = "none" THEN ParseThrew
    ELSE LET segments == IF entry.Kind = "Note" THEN parseUint64ToArray(entry.Prop.bodyID)
                         ELSE [threw |-> FALSE, out |-> <<>>]
         IN IF segments.threw THEN ParseThrew
            ELSE Parsed([state |-> "annotation", kind |-> entry.Kind, id |-> entry.Pos,
                         relatedSegments |-> <<segments.out>>])

\* downloadMetadata with .then(response => ...) and no rejection handler
downloadMetadataSettledNoHandler(m, res) ==
    IF ~res.ok THEN [m EXCEPT !.result = Rejected(res.error)]
    ELSE LET seen == [m EXCEPT !.hist.response = res.body] IN
         IF res.body.shape = "null" THEN [seen EXCEPT !.result = Rejected(TypeError)]
         ELSE IF Len(res.body.elements) > 0
         THEN LET parsed == parseAnnotation(res.body.elements[1]) IN
              IF parsed.threw THEN [seen EXCEPT !.result = Rejected(DecodeError)]
              ELSE [seen EXCEPT !.annotation = parsed.value, !.result = Resolved]
         ELSE [seen EXCEPT !.annotation = Null, !.result = Resolved]

\* the two callbacks downloadMetadata passes to then(): a rejected request
\* sets chunk.annotation = null and the promise resolves; a throw in the first
\* callback (response.length of null, parseAnnotation) rejects the promise
downloadMetadataSettled(m, res) ==
    IF ~res.ok THEN [m EXCEPT !.annotation = Null, !.result = Resolved]
    ELSE LET seen == [m EXCEPT !.hist.response = res.body] IN
         IF res.body.shape = "null" THEN [seen EXCEPT !.result = Rejected(TypeError)]
         ELSE IF Len(res.body.elements) > 0
         THEN LET parsed == parseAnnotation(res.body.elements[1]) IN
              IF parsed.threw THEN [seen EXCEPT !.result = Rejected(DecodeError)]
              ELSE [seen EXCEPT !.annotation = parsed.value, !.result = Resolved]
         ELSE [seen EXCEPT !.annotation = Null, !.result = Resolved]

\* parameters.user: not configured, empty, or a name
NoUser == "<undefined>"
Users == {NoUser, "", "u1"}

\* the annotations of neuroglancer/annotation: a Point carries point, a Line,
\* an AxisAlignedBoundingBox and an Ellipsoid do not
Points == {"1_2_3", "4_5_6"}
Annotations ==
    {[type |-> "POINT", point |-> p] : p \in Points}
    \cup {[type |-> t, point |-> "none"] :
             t \in {"LINE", "AXIS_ALIGNED_BOUNDING_BOX", "ELLIPSOID"}}

\* uploadable(annotation): parameters.user && parameters.user !== '', then
\* annotation.type === AnnotationType.POINT
uploadable(user, a) ==
    IF user # NoUser /\ user # "" THEN a.type = "POINT" ELSE FALSE

\* annotationToDVID(annotation, user): Pos is read from annotation.point[0..2],
\* a TypeError when the annotation has no point
annotationToDVID(a, user) ==
    IF a.point = "none" THEN [threw |-> TRUE, obj |-> "none"]
    ELSE [threw |-> FALSE, obj |-> "payload"]

\* `${annotation.type}_${JSON.stringify(annotation)}`
LocalId(a) == [local |-> TRUE, type |-> a.type, json |-> a]
\* `${annotation.point[0]}_${annotation.point[1]}_${annotation.point[2]}`
PointId(a) == [local |-> FALSE, type |-> a.type, json |-> a]
\* what the request itself resolves with
ResponseValue == [local |-> FALSE, type |-> "response", json |-> [type |-> "", point |-> ""]]

ResolvedWith(value) == [state |-> "resolved", value |-> value]
Thrown(e) == [state |-> "threw", error |-> e]
WrappedError(e) == [kind |-> "Error", status |-> e.status]

\* add: .then(() => id of the point).catch(e => { throw new Error(e); })
AddSettled(m, a, res) ==
    IF res.ok THEN [m EXCEPT !.result = ResolvedWith(PointId(a))]
    ELSE [m EXCEPT !.result = Rejected(WrappedError(res.error))]

\* update and delete return the promise of the request
EditSettled(m, res) ==
    IF res.ok THEN [m EXCEPT !.result = ResolvedWith(ResponseValue)]
    ELSE [m EXCEPT !.result = Rejected(res.error)]

\* the history notes where the cancellation was first seen
SeeCancel(m, kind, res) ==
    IF ~res.ok /\ res.error.kind = "cancel" /\ m.hist.cancelSeenAt = "none"
    THEN [m EXCEPT !.hist.cancelSeenAt = kind]
    ELSE m

\* the continuation of the request of this kind
Settled(kind, key, res) ==
    LET m == SeeCancel(Machine, kind, res) IN
    CASE kind = "topmerge" -> TopMergeSettled(m, res)
      [] kind = "merge" -> MergeSettled(m, key, res)
      [] kind \in {"masterleaf", "leaf"} -> LeafSettled(m, key, res)
      [] kind = "fallback" -> downloadFragmentFallback(m, res)
      [] kind = "single" -> SingleSettled(m, res)
      [] kind = "metadata" -> downloadMetadataSettled(m, res)
      [] kind = "add" -> AddSettled(m, edit.annotation, res)

----------------------------------------------------------------------------
(* State machine *)

Idle == [state |-> "idle"]
NoSnapshot ==
    [fetchNo |-> 0, kind |-> "none", attempts |-> 0, refreshes |-> 0, wait |-> "none",
     decoded |-> FALSE]
NoOutcome == [settled |-> FALSE, ok |-> FALSE, error |-> NoError, attempts |-> 0, refreshes |-> 0]

NoResponse == [shape |-> "none", elements |-> <<>>]

InitHist ==
    [fetches |-> 0, fallbackFetches |-> 0, primaryError |-> NoError,
     returned |-> FALSE, decodedM |-> FALSE, cancelSeenAt |-> "none",
     issuedAfterCancelSeen |-> 0, leafLog |-> <<>>,
     failedBranches |-> 0, returnedKeys |-> <<>>,
     returnedPaths |-> <<>>, masterLeafFailures |-> 0, occurrences |-> 0,
     mergeFetches |-> 0, leafFetches |-> 0, settled |-> 0,
     atCancel |-> NoSnapshot, cancelledCall |-> NoOutcome,
     response |-> NoResponse]

\* before any call: the provider holds no token or a first token (a refresh
\* may bring any token of Tokens), the server is reached over https or http
Init ==
    /\ provider \in [generation : {1}, token : {"", "t1"}]
    /\ baseUrl \in Schemes
    /\ cancelled = FALSE
    /\ retryBudget = 0
    /\ req = NoReq
    /\ stack = <<>>
    /\ calls = 0
    /\ chunk = [assigned |-> 0, geometry |-> <<>>]
    /\ result = Idle
    /\ hist = InitHist
    /\ annotation = Unset
    /\ buffers = <<>>
    /\ fragment = NotDecoded
    /\ peer = NoPeer
    /\ edit = NoEdit
    /\ reaction = NoReaction

\* the pending request settles with res: its record is closed and the
\* reaction that awaits it is queued.  update and delete return the promise of
\* the request itself, which settles here
RequestSettles(r, res) ==
    LET closed == [r EXCEPT !.wait = "settled",
                            !.ok = res.ok,
                            !.error = IF res.ok THEN NoError ELSE res.error,
                            !.truncated = res.ok /\ r.input.suffix = "ngmesh"
                                          /\ res.body.truncated]
        g == [hist EXCEPT !.settled = @ + 1]
        h == IF g.atCancel.fetchNo = hist.fetches /\ hist.fetches > 0
                /\ g.atCancel.wait # "settled"
             THEN [g EXCEPT !.cancelledCall =
                      [settled |-> TRUE, ok |-> res.ok, error |-> closed.error,
                       attempts |-> Len(r.attempts), refreshes |-> r.refreshes]]
             ELSE g
    IN /\ req' = closed
       /\ hist' = h
       /\ IF r.kind \in {"update", "delete"}
          THEN /\ result' = EditSettled(Machine, res).result
               /\ reaction' = NoReaction
          ELSE /\ result' = result
               /\ reaction' = RequestSettled(res)
       /\ UNCHANGED <<stack, calls, chunk, annotation>>

\* a queued reaction has run to its next await or to its end as m: a request
\* it makes is sent with the operation's cancellation token, fired or not,
\* and the credentials the provider holds
Runs(m) ==
    /\ stack' = m.stack
    /\ calls' = m.calls
    /\ chunk' = m.chunk
    /\ result' = m.result
    /\ annotation' = m.annotation
    /\ hist' = m.hist
    /\ reaction' = m.reaction
    /\ req' = IF m.issue.kind = "none" THEN req
              ELSE makeRequestWithCredentials(
                       m.issue.kind, GetCall(m.issue.key, m.issue.suffix),
                       TRUE, provider)

\* DVIDMeshSource.downloadFragment(chunk, cancellationToken) is called and
\* requests fragmentId.merge.  The server answers the requests of this operation
\* with 200 or a fatal status only; the answers 401, 403 and 504, which the
\* transport hides from its caller, are given to the single call of Download.
DownloadFragment ==
    /\ result = Idle
    /\ result' = Pending
    /\ retryBudget' = 0
    /\ hist' = [hist EXCEPT !.fetches = 1]
    /\ req' = makeRequestWithCredentials(
                  "topmerge", GetCall(fragmentId, "merge"), TRUE, provider)
    /\ UNCHANGED <<provider, baseUrl, cancelled, stack, calls, chunk,
                 annotation, buffers, fragment, peer, edit, reaction>>

\* a caller makes one request with makeRequestWithCredentials, hands it its
\* cancellation token and awaits it
Download ==
    /\ result = Idle
    /\ result' = Pending
    /\ retryBudget' = MaxFaults
    /\ hist' = [hist EXCEPT !.fetches = 1]
    /\ \E method \in {"GET", "POST"}, key \in Keys :
          req' = makeRequestWithCredentials(
                     "single",
                     [method |-> method, url |-> KeyUrl(key, "swc"),
                      payload |-> IF method = "POST" THEN "payload" ELSE "none"],
                     TRUE, provider)
    /\ UNCHANGED <<provider, baseUrl, cancelled, stack, calls, chunk,
                 annotation, buffers, fragment, peer, edit, reaction>>

\* DVIDAnnotationSource.downloadMetadata(chunk, cancellationToken) is called
\* for the annotation chunk.key and requests its element
DownloadMetadata ==
    /\ result = Idle
    /\ result' = Pending
    /\ retryBudget' = MaxFaults
    /\ hist' = [hist EXCEPT !.fetches = 1]
    /\ \E id \in Keys :
          req' = makeRequestWithCredentials("metadata", GetCall(id, "elements"), TRUE, provider)
    /\ UNCHANGED <<provider, baseUrl, cancelled, stack, calls, chunk,
                   annotation, buffers, fragment, peer, edit, reaction>>

\* the cancellation token of the operation fires
Cancel ==
    /\ result = Pending
    /\ ~cancelled
    /\ cancelled' = TRUE
    /\ hist' = [hist EXCEPT !.atCancel =
                   [fetchNo |-> hist.fetches, kind |-> req.kind,
                    attempts |-> Len(req.attempts),
                    refreshes |-> req.refreshes, wait |-> req.wait,
                    decoded |-> chunk.assigned > 0]]
    /\ UNCHANGED <<provider, baseUrl, retryBudget, req, stack, calls, chunk, result,
                 annotation, buffers, fragment, peer, edit, reaction>>

\* the bodies the server may answer this request with
Bodies(r) ==
    IF r.input.suffix = "merge"
    THEN {d \in MergeDocs : d.iterable => calls < MaxCalls}
    ELSE IF r.input.suffix = "ngmesh" THEN LeafBodies(r.input.key)
    ELSE IF r.input.suffix = "elements" THEN MetadataResponses
    ELSE {[key |-> r.input.key, truncated |-> FALSE]}

\* the attempt in flight is answered 200 and the response is transformed
RespondOk ==
    /\ InFlight
    /\ ~ObservesCancel(req)
    /\ \E body \in Bodies(req) :
          LET r == [req EXCEPT !.statuses = Append(@, 200)] IN
          RequestSettles(r, Ok(body))
    /\ UNCHANGED <<provider, baseUrl, cancelled, retryBudget, buffers, fragment, peer, edit>>

\* the attempt in flight is answered with an error status: fetchWithCredentials
\* asks errorHandler and refreshes, retries or rejects
RespondError ==
    /\ InFlight
    /\ ~ObservesCancel(req)
    /\ \E status \in FatalStatuses \cup UnauthorizedStatuses \cup TransientStatuses :
          LET r == [req EXCEPT !.statuses = Append(@, status)]
              what == errorHandler(status)
          IN /\ status \notin FatalStatuses => retryBudget > 0
             /\ retryBudget' = IF status \in FatalStatuses THEN retryBudget
                               ELSE retryBudget - 1
             /\ CASE what = "refresh" ->
                       /\ req' = [r EXCEPT !.wait = "credentials", !.refreshes = @ + 1]
                       /\ UNCHANGED <<stack, calls, chunk, result, hist, annotation, reaction>>
                  [] what = "retry" ->
                       /\ req' = Attempt(r, r.credentials)
                       /\ UNCHANGED <<stack, calls, chunk, result, hist, annotation, reaction>>
                  [] OTHER ->
                       RequestSettles(r, Fail(HttpError(status)))
    /\ UNCHANGED <<provider, baseUrl, cancelled, buffers, fragment, peer, edit>>

\* credentialsProvider.get(invalidCredentials, token) resolves with refreshed
\* credentials and the next attempt is sent with them
CredentialsReady ==
    /\ AwaitingCredentials
    /\ ~ObservesCancel(req)
    /\ \E token \in Tokens :
          /\ provider' = [generation |-> provider.generation + 1, token |-> token]
          /\ req' = Attempt(req, provider')
    /\ UNCHANGED <<baseUrl, cancelled, retryBudget, stack, calls, chunk, result, hist,
                 annotation, buffers, fragment, peer, edit, reaction>>

\* the wait of the call (for a response or for credentials) is aborted by the
\* fired token: the call rejects with the cancellation
ObserveCancel ==
    /\ InFlight \/ AwaitingCredentials
    /\ ObservesCancel(req)
    /\ RequestSettles(req, Fail(CancelError))
    /\ UNCHANGED <<provider, baseUrl, cancelled, retryBudget, buffers, fragment, peer, edit>>

\* the reaction awaiting the settled request runs: the continuation of an
\* await or the callbacks of .then and .catch
React ==
    /\ reaction.run = "request"
    /\ Runs(Settled(req.kind, req.input.key, reaction.res))
    /\ UNCHANGED <<provider, baseUrl, cancelled, retryBudget, buffers, fragment, peer, edit>>

\* the .then of the caller of a nested downloadMergeFragment runs on the data
\* that activation returned
Return ==
    /\ reaction.run = "return"
    /\ stack # <<>>
    /\ Runs(MergeReturned(Machine, reaction))
    /\ UNCHANGED <<provider, baseUrl, cancelled, retryBudget, buffers, fragment, peer, edit>>

\* the await of the chain resumes in the caller: its for loop goes on to the
\* request of its next key, or to its return
Resume ==
    /\ reaction.run = "resume"
    /\ Runs(NextKey(Machine))
    /\ UNCHANGED <<provider, baseUrl, cancelled, retryBudget, buffers, fragment, peer, edit>>

\* the .then of downloadFragment runs on the data the outermost
\* downloadMergeFragment returned
Decode ==
    /\ reaction.run = "return"
    /\ stack = <<>>
    /\ Runs(downloadFragmentDecode(Machine, reaction.data))
    /\ UNCHANGED <<provider, baseUrl, cancelled, retryBudget, buffers, fragment, peer, edit>>

\* the promise of downloadFragment settles as the promise it adopted
Settle ==
    /\ reaction.run = "settle"
    /\ result' = reaction.outcome
    /\ reaction' = NoReaction
    /\ UNCHANGED <<provider, baseUrl, cancelled, retryBudget, req, stack, calls, chunk, hist,
                   annotation, buffers, fragment, peer, edit>>

Next ==
    \/ DownloadFragment
    \/ Download
    \/ Cancel
    \/ RespondOk
    \/ RespondError
    \/ CredentialsReady
    \/ ObserveCancel
    \/ React
    \/ Return
    \/ Resume
    \/ Decode
    \/ Settle

Spec == Init /\ [][Next]_vars

----------------------------------------------------------------------------
(* The binary fragment decoders, on the bytes of the responses *)

\* bounds of the leaves the server is taken to encode
MaxVertices == 3
MaxLeaves == 2

\* 32-bit patterns of the floats 1.0, 2.0 and of the smallest denormal
Floats == <<1065353216, 1073741824, 1>>

\* what a server-side encoder writes: a header count, the floats of the
\* vertex triples and the index stream
Position(seed, k) == Floats[((seed + k) % 3) + 1]
Positions(n, seed) == [k \in 1..(3 * n) |-> Position(seed, k)]
Seeds(n) == IF n = 0 THEN {0} ELSE {0, 1}
Triangles(n) == {<<i, (i + 1) % n, (i + 2) % n>> : i \in 0..(n - 1)}
IndexLists(n) == {<<>>, <<0, 0>>, <<0, 0, n>>} \cup Triangles(n)
Leaf(count, positions, indices) ==
    [count |-> count, positions |-> positions, indices |-> indices]
LeafShapes ==
    UNION {{Leaf(n, Positions(n, seed), indices) :
                seed \in Seeds(n), indices \in IndexLists(n)}
           \cup {Leaf(n + 1, Positions(n, 0), indices) : indices \in IndexLists(n)} :
           n \in 0..MaxVertices}

\* a conforming encoder writes as many triples as the header declares, whole
\* triangles only, and indices below the count
Conforming(leaf) ==
    /\ Len(leaf.positions) = 3 * leaf.count
    /\ Len(leaf.indices) % 3 = 0
    /\ \A j \in 1..Len(leaf.indices) : leaf.indices[j] < leaf.count

\* the four bytes of a 32-bit word, least significant first
EncodeLE32(w) == <<w % 256, (w \div 256) % 256, (w \div 65536) % 256, (w \div 16777216) % 256>>
RECURSIVE EncodeWords(_)
EncodeWords(ws) ==
    IF ws = <<>> THEN <<>> ELSE EncodeLE32(Head(ws)) \o EncodeWords(Tail(ws))
Encode(leaf) ==
    EncodeLE32(leaf.count) \o EncodeWords(leaf.positions) \o EncodeWords(leaf.indices)

\* the bodies a server may send: encoded leaves, and bodies cut short
ServerBuffers ==
    {Encode(leaf) : leaf \in LeafShapes}
    \cup {<<>>, <<1, 0, 0>>, <<1, 0, 0, 0, 0, 0, 128, 63, 0, 0>>}

\* DataView.getUint32(byteOffset, littleEndian) and the elements of a typed
\* array after convertEndian32: the word at a byte offset of the buffer
getUint32(data, byteOffset, littleEndian) ==
    IF littleEndian
    THEN data[byteOffset + 1] + 256 * data[byteOffset + 2]
         + 65536 * data[byteOffset + 3] + 16777216 * data[byteOffset + 4]
    ELSE data[byteOffset + 4] + 256 * data[byteOffset + 3]
         + 65536 * data[byteOffset + 2] + 16777216 * data[byteOffset + 1]

RangeError == [state |-> "error", error |-> "RangeError"]
IndexCountError == [state |-> "error", error |-> "Error"]
Decoded(vertexPositions, indices) ==
    [state |-> "decoded", vertexPositions |-> vertexPositions, indices |-> indices]

\* decodeTriangleVertexPositionsAndIndices(data, endianness, vertexByteOffset,
\* numVertices): a Float32Array of 3 * numVertices elements at vertexByteOffset,
\* a Uint32Array over the rest of the buffer, whose length must be a multiple
\* of 3.  The typed-array constructors throw a RangeError for a range beyond
\* the buffer and for a rest that is no whole number of words.
decodeTriangleVertexPositionsAndIndices(data, littleEndian, vertexByteOffset, numVertices) ==
    LET indexByteOffset == vertexByteOffset + 12 * numVertices
        rest == Len(data) - indexByteOffset
    IN IF rest < 0 \/ rest % 4 # 0 THEN RangeError
       ELSE IF (rest \div 4) % 3 # 0 THEN IndexCountError
       ELSE Decoded(
                [k \in 1..(3 * numVertices) |->
                    getUint32(data, vertexByteOffset + 4 * (k - 1), littleEndian)],
                [k \in 1..(rest \div 4) |->
                    getUint32(data, indexByteOffset + 4 * (k - 1), littleEndian)])

\* decodeTriangleVertexPositionsAndIndicesM(dataArray, endianness,
\* vertexByteOffset, numVerticesArray): every buffer is decoded on its own; the
\* positions are concatenated in the order of the buffers and the indices of a
\* buffer are raised by the number of vertices of the buffers before it
RECURSIVE MergeFrom(_, _, _, _, _, _)
MergeFrom(dataArray, littleEndian, vertexByteOffset, numVerticesArray, n, merged) ==
    IF n > Len(dataArray) THEN merged
    ELSE LET one == decodeTriangleVertexPositionsAndIndices(
                        dataArray[n], littleEndian, vertexByteOffset, numVerticesArray[n])
             offset == Len(merged.vertexPositions) \div 3
         IN IF one.state = "error" THEN one
            ELSE MergeFrom(dataArray, littleEndian, vertexByteOffset, numVerticesArray, n + 1,
                     Decoded(merged.vertexPositions \o one.vertexPositions,
                             merged.indices
                             \o [k \in 1..Len(one.indices) |-> one.indices[k] + offset]))

decodeTriangleVertexPositionsAndIndicesM(dataArray, littleEndian, vertexByteOffset, numVerticesArray) ==
    MergeFrom(dataArray, littleEndian, vertexByteOffset, numVerticesArray, 1,
              Decoded(<<>>, <<>>))

\* assignMeshFragmentData(chunk, data): the chunk takes the two arrays
assignMeshFragmentData(by, data) ==
    [state |-> "assigned", by |-> by,
     vertexPositions |-> data.vertexPositions, indices |-> data.indices]

\* the decoder threw: nothing was assigned to the chunk
Threw(by, error) == [state |-> "threw", by |-> by, error |-> error]

\* let dv = new DataView(response); let numVertices = dv.getUint32(0, true):
\* a RangeError on a buffer of fewer than 4 bytes
HeaderError(response) == Len(response) < 4

\* decodeFragmentChunk with the vertices read from the start of the buffer
decodeFragmentChunkBytesFromZero(response) ==
    IF HeaderError(response) THEN Threw("decodeFragmentChunk", "RangeError")
    ELSE LET numVertices == getUint32(response, 0, TRUE)
             data == decodeTriangleVertexPositionsAndIndices(response, TRUE, 0, numVertices)
         IN IF data.state = "error" THEN Threw("decodeFragmentChunk", data.error)
            ELSE assignMeshFragmentData("decodeFragmentChunk", data)

\* decodeFragmentChunk catching the decoder's error and assigning empty arrays
decodeFragmentChunkBytesCatching(response) ==
    IF HeaderError(response) THEN Threw("decodeFragmentChunk", "RangeError")
    ELSE LET numVertices == getUint32(response, 0, TRUE)
             data == decodeTriangleVertexPositionsAndIndices(response, TRUE, 4, numVertices)
         IN IF data.state = "error"
            THEN assignMeshFragmentData("decodeFragmentChunk", Decoded(<<>>, <<>>))
            ELSE assignMeshFragmentData("decodeFragmentChunk", data)

decodeFragmentChunkBytes(response) ==
    IF HeaderError(response) THEN Threw("decodeFragmentChunk", "RangeError")
    ELSE LET numVertices == getUint32(response, 0, TRUE)
             data == decodeTriangleVertexPositionsAndIndices(response, TRUE, 4, numVertices)
         IN IF data.state = "error" THEN Threw("decodeFragmentChunk", data.error)
            ELSE assignMeshFragmentData("decodeFragmentChunk", data)

\* the loop collecting the counts in the reverse order of the responses
numVerticesArrayReversed(dataArray) ==
    [n \in 1..Len(dataArray) |-> getUint32(dataArray[Len(dataArray) + 1 - n], 0, TRUE)]

\* the loop taking the count of the first response for every response
numVerticesArrayOfFirst(dataArray) ==
    [n \in 1..Len(dataArray) |-> getUint32(dataArray[1], 0, TRUE)]

\* the loop of decodeFragmentChunkM: one count pushed for every response
numVerticesArray(dataArray) ==
    [n \in 1..Len(dataArray) |-> getUint32(dataArray[n], 0, TRUE)]

decodeFragmentChunkMBytes(dataArray) ==
    IF \E n \in 1..Len(dataArray) : HeaderError(dataArray[n])
    THEN Threw("decodeFragmentChunkM", "RangeError")
    ELSE LET data == decodeTriangleVertexPositionsAndIndicesM(
                         dataArray, TRUE, 4, numVerticesArray(dataArray))
         IN IF data.state = "error" THEN Threw("decodeFragmentChunkM", data.error)
            ELSE assignMeshFragmentData("decodeFragmentChunkM", data)

\* a response body arrives and joins the responses held for the chunk
Receive ==
    /\ fragment = NotDecoded
    /\ Len(buffers) < MaxLeaves
    /\ \E response \in ServerBuffers : buffers' = Append(buffers, response)
    /\ UNCHANGED <<provider, baseUrl, cancelled, retryBudget, req, stack, calls, chunk,
                   result, hist, annotation, fragment, peer, edit, reaction>>

\* decodeFragmentChunk(chunk, response) on the one response held
DecodeFragmentChunk ==
    /\ fragment = NotDecoded
    /\ Len(buffers) = 1
    /\ fragment' = decodeFragmentChunkBytes(buffers[1])
    /\ UNCHANGED <<provider, baseUrl, cancelled, retryBudget, req, stack, calls, chunk,
                   result, hist, annotation, buffers, peer, edit, reaction>>

\* decodeFragmentChunkM(chunk, responses) on the responses held
DecodeFragmentChunkM ==
    /\ fragment = NotDecoded
    /\ fragment' = decodeFragmentChunkMBytes(buffers)
    /\ UNCHANGED <<provider, baseUrl, cancelled, retryBudget, req, stack, calls, chunk,
                   result, hist, annotation, buffers, peer, edit, reaction>>

DecodeInit == Init /\ provider.token = "" /\ baseUrl = "https"

DecodeNext ==
    \/ Receive
    \/ DecodeFragmentChunk
    \/ DecodeFragmentChunkM

DecodeSpec == DecodeInit /\ [][DecodeNext]_vars

----------------------------------------------------------------------------
(* DVIDAnnotationSource.downloadMetadata *)

MetadataNext ==
    \/ DownloadMetadata
    \/ Cancel
    \/ RespondOk
    \/ RespondError
    \/ CredentialsReady
    \/ ObserveCancel
    \/ React

MetadataSpec == Init /\ [][MetadataNext]_vars

----------------------------------------------------------------------------
(* Two downloadFragment calls of one DVIDMeshSource, interleaved *)

\* the merge documents the server answers with an array, over both calls
MaxPairDocs == 2

\* the call that runs next: what belongs to one call of downloadFragment (its
\* token, its pending request, its activations, its chunk and its promise)
Active ==
    [cancelled |-> cancelled, req |-> req, stack |-> stack, calls |-> calls,
     chunk |-> chunk, result |-> result, hist |-> hist, reaction |-> reaction]

NotCalled ==
    [cancelled |-> FALSE, req |-> NoReq, stack |-> <<>>, calls |-> 0,
     chunk |-> [assigned |-> 0, geometry |-> <<>>], result |-> Idle, hist |-> InitHist,
     reaction |-> NoReaction]

\* the event loop turns to the other call: the calls alternate between the
\* turns of the microtask queue
Switch ==
    /\ peer # NoPeer
    /\ peer' = Active
    /\ cancelled' = peer.cancelled
    /\ req' = peer.req
    /\ stack' = peer.stack
    /\ calls' = peer.calls
    /\ chunk' = peer.chunk
    /\ result' = peer.result
    /\ hist' = peer.hist
    /\ reaction' = peer.reaction
    /\ UNCHANGED <<provider, baseUrl, retryBudget, annotation, buffers, fragment, edit>>

\* the documents a call has been answered with an array
DocsOf(c) ==
    c.calls + IF c.reaction.run = "request" /\ c.req.input.suffix = "merge"
                 /\ c.reaction.res.ok /\ c.reaction.res.body.iterable
              THEN 1 ELSE 0

\* a 200 answer to the call that runs, within the documents the server has:
\* MaxPairDocs arrays over both calls, each of them [], [1] or [1, 2]
PairRespondOk ==
    /\ RespondOk
    /\ DocsOf(Active)' + DocsOf(peer) <= MaxPairDocs
    /\ req'.input.suffix = "merge" =>
          reaction'.res.body.keys \in {<<>>, <<"1">>, <<"1", "2">>}

PairInit ==
    /\ provider = [generation |-> 1, token |-> "t1"]
    /\ baseUrl = "https"
    /\ cancelled = FALSE
    /\ retryBudget = 0
    /\ req = NoReq
    /\ stack = <<>>
    /\ calls = 0
    /\ chunk = [assigned |-> 0, geometry |-> <<>>]
    /\ result = Idle
    /\ hist = InitHist
    /\ annotation = Unset
    /\ buffers = <<>>
    /\ fragment = NotDecoded
    /\ peer = NotCalled
    /\ edit = NoEdit
    /\ reaction = NoReaction

PairNext ==
    \/ DownloadFragment
    \/ Cancel
    \/ PairRespondOk
    \/ RespondError
    \/ ObserveCancel
    \/ React
    \/ Return
    \/ Resume
    \/ Decode
    \/ Settle
    \/ Switch

PairSpec == PairInit /\ [][PairNext]_vars

----------------------------------------------------------------------------
(* DVIDAnnotationSource.add, update and delete *)

\* the request of add, update or delete: no cancellation token is passed
EditRequest(kind, method, key, suffix, payload) ==
    /\ result' = Pending
    /\ retryBudget' = MaxFaults
    /\ hist' = [hist EXCEPT !.fetches = 1]
    /\ req' = makeRequestWithCredentials(
                  kind, [method |-> method, url |-> KeyUrl(key, suffix), payload |-> payload],
                  FALSE, provider)

\* add(annotation): the annotation is converted first, then uploadable decides
Add ==
    /\ result = Idle
    /\ \E user \in Users, a \in Annotations :
          LET dvidAnnotation == annotationToDVID(a, user) IN
          /\ edit' = [op |-> "add", user |-> user, annotation |-> a]
          /\ IF dvidAnnotation.threw
             THEN /\ result' = Thrown(TypeError)
                  /\ UNCHANGED <<retryBudget, hist, req>>
             ELSE IF uploadable(user, a)
             THEN EditRequest("add", "POST", "", "elements", dvidAnnotation.obj)
             ELSE /\ result' = ResolvedWith(LocalId(a))
                  /\ UNCHANGED <<retryBudget, hist, req>>
    /\ UNCHANGED <<provider, baseUrl, cancelled, stack, calls, chunk,
                   annotation, buffers, fragment, peer, reaction>>

\* update(id, annotation): uploadable decides, then the annotation is converted
Update ==
    /\ result = Idle
    /\ \E user \in Users, a \in Annotations :
          /\ edit' = [op |-> "update", user |-> user, annotation |-> a]
          /\ IF uploadable(user, a)
             THEN LET dvidAnnotation == annotationToDVID(a, user) IN
                  IF dvidAnnotation.threw
                  THEN /\ result' = Thrown(TypeError)
                       /\ UNCHANGED <<retryBudget, hist, req>>
                  ELSE EditRequest("update", "POST", "",
                                   "elements?app=Neuroglancer&u=" \o user, dvidAnnotation.obj)
             ELSE /\ result' = ResolvedWith(LocalId(a))
                  /\ UNCHANGED <<retryBudget, hist, req>>
    /\ UNCHANGED <<provider, baseUrl, cancelled, stack, calls, chunk,
                   annotation, buffers, fragment, peer, reaction>>

\* delete(id): the request is made whatever the user and the annotation
Delete ==
    /\ result = Idle
    /\ \E user \in Users, id \in Points :
          /\ edit' = [op |-> "delete", user |-> user,
                      annotation |-> [type |-> "POINT", point |-> id]]
          /\ EditRequest("delete", "DELETE", id, "element", "none")
    /\ UNCHANGED <<provider, baseUrl, cancelled, stack, calls, chunk,
                   annotation, buffers, fragment, peer, reaction>>

AnnotationNext ==
    \/ Add
    \/ Update
    \/ Delete
    \/ RespondOk
    \/ RespondError
    \/ CredentialsReady
    \/ React

AnnotationSpec == Init /\ [][AnnotationNext]_vars

----------------------------------------------------------------------------
(* Properties: credentialed transport *)

IsCall == req.wait # "none"
\* the request has settled and the reaction that awaited it has run
Reacted == IsCall /\ req.wait = "settled" /\ reaction.run # "request"
\* the promise of the operation is resolved, or has adopted a resolved promise
Resolving == result = Resolved \/ (result = Pending /\ reaction = Adopts(Resolved))
StatusCount(r, set) == Cardinality({n \in 1..Len(r.statuses) : r.statuses[n] \in set})
SameCall(a, b) ==
    /\ a.input = b.input
    /\ a.init.method = b.init.method
    /\ a.init.body = b.init.body

\* C1: a call whose first attempt is answered 401 or 403 and whose second
\* attempt is answered 200 resolves, has asked the provider for refreshed
\* credentials exactly once, and made its second attempt with the same method,
\* URL and payload and with the refreshed credentials.
C1_RefreshOnceThenSucceed ==
    (/\ IsCall
     /\ Len(req.statuses) = 2
     /\ req.statuses[1] \in UnauthorizedStatuses
     /\ req.statuses[2] = 200)
    => /\ req.wait = "settled" /\ req.ok
       /\ req.kind = "single" => result = IF Reacted THEN Resolved ELSE Pending
       /\ req.refreshes = 1
       /\ Len(req.attempts) = 2
       /\ SameCall(req.attempts[1], req.attempts[2])
       /\ req.attempts[2].generation = req.attempts[1].generation + 1
       /\ req.attempts[2].generation = provider.generation
       /\ req.attempts[2].init.Authorization =
              IF StartsWithHttps(req.input) /\ provider.token # ""
              THEN Bearer(provider.token) ELSE NoHeader

C1_Witness ==
    /\ IsCall
    /\ req.statuses = <<401, 200>>
    /\ result = Resolved
    /\ req.attempts[2].init.Authorization # req.attempts[1].init.Authorization
    /\ req.init.method = "POST"

\* C2: every attempt answered 504 is followed by another attempt of the same
\* call with the same credentials, however many 504 answers came before, and
\* no 504 answer makes the call ask for refreshed credentials.
C2_TimeoutRetriedWithoutRefresh ==
    IsCall =>
       /\ \A n \in 1..Len(req.statuses) :
             req.statuses[n] \in TransientStatuses =>
                /\ Len(req.attempts) > n
                /\ req.attempts[n + 1] = req.attempts[n]
       /\ req.refreshes = StatusCount(req, UnauthorizedStatuses)

C2_Witness ==
    /\ IsCall
    /\ req.statuses = <<504, 504, 504>>
    /\ InFlight
    /\ Len(req.attempts) = 4
    /\ req.refreshes = 0

\* C3: an attempt answered with a status other than 200, 401, 403 and 504 is
\* the last attempt of its call: the call is rejected with that error, and
\* neither another attempt nor a refresh follows.
C3_FatalStatusRejectsAtOnce ==
    IsCall =>
       \A n \in 1..Len(req.statuses) :
          req.statuses[n] \in FatalStatuses =>
             /\ n = Len(req.statuses)
             /\ Len(req.attempts) = n
             /\ req.wait = "settled"
             /\ req.error = HttpError(req.statuses[n])
             /\ req.refreshes = StatusCount(req, UnauthorizedStatuses)
             /\ req.kind = "single" =>
                   result = IF Reacted THEN Rejected(HttpError(req.statuses[n])) ELSE Pending

C3_Witness ==
    /\ IsCall
    /\ req.kind = "single"
    /\ req.statuses = <<401, 504, 500>>
    /\ result = Rejected(HttpError(500))

\* C9: the call that is pending when the token fires (an attempt in flight, or
\* the wait for refreshed credentials) is rejected with the cancellation, which
\* is no HTTP error, and makes no attempt and no refresh after the firing.
C9_CancelRejectsPendingCall ==
    (cancelled /\ hist.atCancel.wait \in {"response", "credentials"}) =>
       LET at == hist.atCancel
           o == hist.cancelledCall
       IN /\ o.settled =>
                /\ ~o.ok
                /\ o.error = CancelError
                /\ o.error.kind # "http"
                /\ o.attempts = at.attempts
                /\ o.refreshes = at.refreshes
          /\ ~o.settled =>
                /\ hist.fetches = at.fetchNo
                /\ InFlight \/ AwaitingCredentials
                /\ ObservesCancel(req)
                /\ Len(req.attempts) = at.attempts
                /\ req.refreshes = at.refreshes
          /\ (at.kind = "single" /\ o.settled) =>
                result = IF Reacted THEN Rejected(CancelError) ELSE Pending

C9_Witness ==
    /\ cancelled
    /\ hist.atCancel.kind = "single"
    /\ hist.atCancel.wait = "credentials"
    /\ hist.cancelledCall.settled
    /\ result = Rejected(CancelError)

----------------------------------------------------------------------------
(* Properties: downloadFragment and downloadMergeFragment *)

IsFragment == IsCall /\ req.kind # "single"
Finished == result.state \in {"resolved", "rejected"}
PrimaryFailed == hist.primaryError # NoError
FallbackSettled == IsCall /\ req.kind = "fallback" /\ req.wait = "settled"
ResolveKinds == {"masterleaf", "merge", "leaf"}
PrimaryKinds == {"topmerge"} \cup ResolveKinds

RECURSIVE DataKeys(_)
\* the keys of the leaves the activations hold, outermost first
DataKeys(stk) ==
    IF stk = <<>> THEN <<>>
    ELSE DataKeys(Below(stk)) \o [j \in 1..Len(Top(stk).data) |-> Top(stk).data[j].key]

\* C4: once the primary path has failed (the fragmentId.merge request failed,
\* its document was not iterable, or decodeFragmentChunkM threw) exactly one
\* request of fragmentId.ngmesh has been made, and when that request has
\* succeeded its body alone, as far as it decodes, is the chunk's geometry.
C4_PrimaryFailureFallsBackOnce ==
    (IsFragment /\ PrimaryFailed) =>
       /\ hist.fallbackFetches = 1
       /\ req.kind = "fallback"
       /\ req.input = KeyUrl(fragmentId, "ngmesh")
       /\ stack = <<>>
       /\ (FallbackSettled /\ Reacted /\ req.ok /\ ~req.truncated) =>
             /\ Resolving
             /\ chunk = [assigned |-> 1, geometry |-> <<fragmentId>>]
       /\ (FallbackSettled /\ Reacted /\ req.ok /\ req.truncated) =>
             /\ result = Rejected(DecodeError)
             /\ chunk.assigned = 0
       /\ ~(FallbackSettled /\ Reacted) =>
             /\ result = Pending
             /\ chunk.assigned = 0

C4_Witness ==
    /\ IsFragment
    /\ hist.primaryError = DecodeError
    /\ Len(hist.returnedKeys) = 2
    /\ result = Resolved
    /\ chunk.geometry = <<fragmentId>>

\* C5: when the primary path has produced a geometry, be it of zero leaves, no
\* request of the fallback is ever made; and the chunk is assigned at most once.
C5_PrimaryAndFallbackExclusive ==
    /\ hist.decodedM => (hist.fallbackFetches = 0 /\ ~PrimaryFailed)
    /\ hist.fallbackFetches > 0 => ~hist.decodedM
    /\ chunk.assigned <= 1

C5_Witness ==
    /\ IsFragment
    /\ hist.decodedM
    /\ result = Resolved
    /\ chunk = [assigned |-> 1, geometry |-> <<>>]
    /\ hist.fetches > 2

\* C6: downloadFragment ends resolved with the chunk assigned, or rejected with
\* the chunk unassigned; it is rejected only when the primary path failed and
\* the fallback failed after it, and the error it rejects with is the
\* fallback's: a primary failure alone is never the result.
C6_RejectsWithFallbackError ==
    (IsFragment /\ Finished) =>
       /\ result = Resolved => chunk.assigned = 1
       /\ result.state = "rejected" =>
             /\ chunk.assigned = 0
             /\ PrimaryFailed
             /\ hist.fallbackFetches = 1
             /\ FallbackSettled
             /\ result.error = IF req.ok THEN DecodeError ELSE req.error
             /\ ~req.ok => req.error.kind \in {"http", "cancel"}
    
C6_Witness ==
    /\ IsFragment
    /\ result = Rejected(HttpError(500))
    /\ hist.primaryError = HttpError(404)

\* C7 (as claimed): when the token fires while the primary path is pending (a
\* request of it is, or a reaction of it is queued, and nothing is decoded
\* yet), downloadFragment is rejected with the cancellation and makes no
\* request of the fallback.
C7_CancelNeverFallsBack ==
    (cancelled /\ hist.atCancel.kind \in PrimaryKinds /\ ~hist.atCancel.decoded) =>
       /\ hist.fallbackFetches = 0
       /\ Finished => result = Rejected(CancelError)

\* the token fired between two turns, with the second request settled and
\* nothing outstanding: downloadFragment resolves with the geometry of its
\* list; the fallback is requested with the fired token after a leaf that
\* does not decode; the next .merge request is made with the fired token
C7_ResolvedAfterFiring ==
    /\ IsFragment /\ cancelled
    /\ hist.atCancel.fetchNo = 2 /\ hist.atCancel.wait = "settled"
    /\ hist.fetches = 2
    /\ chunk = [assigned |-> 1, geometry |-> <<fragmentId>>]
    /\ result = Resolved
C7_FallbackAfterFiring ==
    /\ IsFragment /\ cancelled
    /\ hist.atCancel.fetchNo = 2 /\ hist.atCancel.wait = "settled"
    /\ hist.fetches = 3
    /\ req.kind = "fallback" /\ InFlight
    /\ hist.primaryError = DecodeError
    /\ result = Pending
C7_MergeAfterFiring ==
    /\ IsFragment /\ cancelled
    /\ hist.atCancel.fetchNo = 2 /\ hist.atCancel.wait = "settled"
    /\ hist.fetches = 3
    /\ req.kind = "merge" /\ InFlight
    /\ Len(stack) = 1 /\ calls = 2

\* C8 (as claimed): once a request inside downloadMergeFragment has been
\* rejected by the cancellation, no further request is made for the remaining
\* keys, no leaf list is returned and no geometry is decoded from it.
C8_CancelAbortsResolve ==
    hist.cancelSeenAt \in ResolveKinds =>
       /\ hist.issuedAfterCancelSeen = 0
       /\ ~hist.returned
       /\ ~hist.decodedM

\* the leaves a returned activation has handed to its caller's queued .then
InTransitOf(queued) == IF queued.run = "return" THEN queued.data ELSE <<>>
InTransit == InTransitOf(reaction)
\* the keys of the leaves held in the resolution, in order: by the activations
\* and, behind them, on the way to the caller
HeldKeysOf(stk, queued) ==
    DataKeys(stk) \o [j \in 1..Len(InTransitOf(queued)) |-> InTransitOf(queued)[j].key]
HeldKeys == HeldKeysOf(stack, reaction)

\* C10: after a branch has failed (the .merge request of a key other than the
\* master key failed and so did the request of its leaf) downloadMergeFragment
\* goes on and returns its list: at every moment the activations hold, in
\* order, the leaves of every leaf request that succeeded, and the list
\* returned to downloadFragment is exactly those leaves.
C10_FailedBranchTolerated ==
    (IsFragment /\ hist.failedBranches > 0) =>
       /\ ~hist.returned => (result = Pending /\ HeldKeys = hist.leafLog)
       /\ hist.returned => (stack = <<>> /\ hist.returnedKeys = hist.leafLog)

C10_Witness ==
    /\ IsFragment
    /\ ~cancelled
    /\ hist.failedBranches = 1
    /\ hist.returned
    /\ hist.returnedKeys = <<"1">>
    /\ hist.primaryError = NoError
    /\ result = Resolved

----------------------------------------------------------------------------
(* Properties: the resolution of merge documents *)

\* the keys of the leaves resolved so far: those held in the resolution or,
\* after downloadFragment has received the list, that list
AllData == IF hist.returned THEN hist.returnedKeys ELSE HeldKeys

\* the reaction awaiting the settled request of this kind runs in this step
Settles(kind) ==
    /\ IsCall /\ req.kind = kind /\ reaction.run = "request"
    /\ reaction'.run # "request"

\* the .then of the caller of a returned activation runs in this step
Returns ==
    /\ reaction.run = "return" /\ stack # <<>>
    /\ reaction' # reaction

\* the await of the chain resumes in this step: the loop of the innermost
\* activation goes on
Resumes ==
    /\ reaction.run = "resume"
    /\ reaction' # reaction

\* the .then of downloadFragment receives the list in this step
Receives == ~hist.returned /\ hist'.returned

\* C11: when the key.merge request of a key other than the master key settles
\* without a document to iterate, the next and only request is the one of
\* key.ngmesh, made by the same activation; when that request settles, its
\* body is appended after the leaves of the earlier keys if it succeeded and
\* nothing is appended if it failed, no request is made for that key again,
\* and either way the activation, when its await resumes, goes on to its next
\* key (or returns) without rejecting.
C11_FailedMergeFallsBackToLeaf ==
    [][ /\ (Settles("merge") /\ calls' = calls) =>
              /\ Top(stack).masterKey # req.input.key
              /\ req'.kind = "leaf"
              /\ req'.input = KeyUrl(req.input.key, "ngmesh")
              /\ req'.wait = "response"
              /\ hist'.fetches = hist.fetches + 1
              /\ hist'.leafFetches = hist.leafFetches + 1
              /\ hist'.mergeFetches = hist.mergeFetches
              /\ stack' = stack
              /\ result' = Pending
        /\ Settles("leaf") =>
              LET f == Top(stack)
                  key == req.input.key
                  failed == hist'.failedBranches = hist.failedBranches + 1
              IN /\ f.keys[f.i] = key
                 /\ f.masterKey # key
                 /\ AllData' = IF failed THEN AllData ELSE AllData \o <<key>>
                 /\ hist'.primaryError = NoError
                 /\ hist'.fetches = hist.fetches
                 /\ req' = req
                 /\ Len(stack') = Len(stack)
                 /\ Top(stack').i = f.i
                 /\ reaction' = ChainSettled
                 /\ result' = Pending
        /\ (Resumes /\ req.kind = "leaf") =>
              LET f == Top(stack) IN
              /\ AllData' = AllData
              /\ hist'.primaryError = NoError
              /\ result' = Pending
              /\ f.i < Len(f.keys) =>
                    /\ Len(stack') = Len(stack)
                    /\ Top(stack').i = f.i + 1
                    /\ req'.input.key = f.keys[f.i + 1]
                    /\ req'.kind \in {"masterleaf", "merge"}
                    /\ req'.wait = "response"
              /\ f.i = Len(f.keys) =>
                    /\ stack' = Below(stack)
                    /\ reaction' = Returned(f.data)
      ]_vars

C11_Witness ==
    /\ IsFragment
    /\ hist.returnedKeys = <<"1", "2">>
    /\ calls = 1
    /\ hist.mergeFetches = 1
    /\ hist.leafFetches = 2
    /\ hist.failedBranches = 0
    /\ result = Resolved

\* the pending request was made by the innermost activation for its current key
PendingInResolve ==
    /\ IsCall /\ req.kind \in ResolveKinds /\ req.wait # "settled"
    /\ stack # <<>>

\* C12 (as claimed): the master key's leaf is requested without a .merge
\* request, and when that request fails the activation rejects: the outermost
\* one hands the error to downloadFragment, a nested one to the .catch of its
\* caller, and neither returns a list.
C12_MasterLeafFailurePropagates ==
    [][ /\ PendingInResolve => (req.kind = "merge" => Top(stack).masterKey # req.input.key)
        /\ (Settles("masterleaf") /\ hist'.masterLeafFailures > hist.masterLeafFailures) =>
              IF Len(stack) = 1
              THEN /\ stack' = <<>>
                   /\ ~hist'.returned
                   /\ hist'.primaryError \notin {NoError, DecodeError}
              ELSE /\ stack' = Below(stack)
                   /\ req'.kind = "leaf"
                   /\ req'.input.key = Top(stack').keys[Top(stack').i]
      ]_vars

\* C12 (amended): the request an activation has pending is the one of its
\* current key, and it is the leaf key.ngmesh, never key.merge, exactly when
\* that key is the master key.  When the master key's leaf request settles, its
\* body is appended on success and nothing on failure; the failure is caught
\* where it happens, the activation goes on to its next key or returns its
\* list, which downloadFragment receives whole, and nothing is handed to the
\* .catch of downloadFragment.
C12_MasterLeafFailureSwallowed ==
    [][ /\ PendingInResolve =>
              LET f == Top(stack) IN
              /\ f.i <= Len(f.keys)
              /\ req.input.key = f.keys[f.i]
              /\ (f.masterKey = req.input.key) <=> (req.kind = "masterleaf")
              /\ req.kind = "masterleaf" => req.input = KeyUrl(f.masterKey, "ngmesh")
              /\ req.kind = "merge" => req.input = KeyUrl(req.input.key, "merge")
        /\ Settles("masterleaf") =>
              LET f == Top(stack)
                  key == req.input.key
                  failed == hist'.masterLeafFailures = hist.masterLeafFailures + 1
              IN /\ AllData' = IF failed THEN AllData ELSE AllData \o <<key>>
                 /\ hist'.mergeFetches + hist'.leafFetches - hist.mergeFetches
                       - hist.leafFetches \in {0, 1}
                 /\ hist'.primaryError \in {NoError, DecodeError}
                 /\ f.i < Len(f.keys) =>
                       /\ stack' = Append(Below(stack),
                                          [Top(stack') EXCEPT !.keys = f.keys,
                                                              !.masterKey = f.masterKey,
                                                              !.i = f.i + 1])
                       /\ req'.input.key = f.keys[f.i + 1]
                       /\ result' = Pending
                 /\ f.i = Len(f.keys) =>
                       /\ stack' = Below(stack)
                       /\ reaction' = Returned(InTransit')
                       /\ result' = Pending
        /\ Receives => (stack = <<>> /\ hist'.returnedKeys = AllData)
      ]_vars

C12_Witness ==
    /\ IsFragment
    /\ ~cancelled
    /\ hist.masterLeafFailures = 1
    /\ hist.returned
    /\ hist.returnedKeys = <<"2">>
    /\ hist.primaryError = NoError
    /\ result = Resolved

\* C13: an activation whose document is the master key alone, and whose
\* request of masterKey.ngmesh succeeds, returns the list of that one body: the
\* outermost activation returns <<masterKey>> to downloadFragment, which
\* decodes it alone; a nested one adds exactly that leaf to its caller's data
\* (a list of one body is appended as it is wherever it is received).
C13_MasterOnlyDocumentGivesOneLeaf ==
    [][ /\ ( /\ Settles("masterleaf")
             /\ Top(stack).keys = <<Top(stack).masterKey>>
             /\ hist'.leafLog = Append(hist.leafLog, req.input.key) ) =>
                 LET f == Top(stack) IN
                 /\ req.input = KeyUrl(f.masterKey, "ngmesh")
                 /\ f.data = <<>>
                 /\ stack' = Below(stack)
                 /\ AllData' = AllData \o <<f.masterKey>>
                 /\ reaction'.run = "return"
                 /\ Len(reaction'.data) = 1
                 /\ reaction'.data[1].key = f.masterKey
                 /\ reaction'.data[1].path = PathOf(stack)
        /\ (Receives /\ Len(reaction.data) = 1) =>
                 /\ hist'.returnedKeys = <<reaction.data[1].key>>
                 /\ hist'.decodedM => chunk'.geometry = <<reaction.data[1].key>>
        /\ (Returns /\ Len(reaction.data) = 1) =>
                 LET p == Top(stack) IN
                 /\ AllData' = AllData
                 /\ stack' = Append(Below(stack),
                                    [p EXCEPT !.data = Append(p.data, reaction.data[1])])
                 /\ reaction' = ChainSettled
      ]_vars

C13_Witness ==
    /\ IsFragment
    /\ hist.occurrences = 1
    /\ hist.fetches = 2
    /\ hist.returnedKeys = <<fragmentId>>
    /\ hist.decodedM
    /\ chunk = [assigned |-> 1, geometry |-> <<fragmentId>>]
    /\ result = Resolved

\* the leaves of a list held at depth k came through child positions of that
\* depth that never decrease
InChildOrder(data, k) ==
    \A a, b \in 1..Len(data) : a < b => data[a].path[k] <= data[b].path[k]

\* the child positions the activation at depth k is through with: those before
\* its current one and, while the innermost activation waits for its await to
\* resume, the current one
Through(k) ==
    IF k = Len(stack) /\ reaction = ChainSettled THEN stack[k].i ELSE stack[k].i - 1

\* C14 (as claimed): every nested activation has the master key of the
\* activation that made it, and the activations hold the leaves in the order
\* their children produced them.
C14_SameMasterKeyAtEveryDepth ==
    /\ \A k \in 2..Len(stack) : stack[k].masterKey = stack[k - 1].masterKey
    /\ \A k \in 1..Len(stack) :
          InChildOrder(stack[k].data, k)

\* C14 (amended): the outermost activation has the fragment id as master key;
\* a nested activation is made for a child key that differs from its caller's
\* master key, and has that child key as its own master key.  The data of
\* every activation is the concatenation, in child order, of what its finished
\* children gave: the positions never decrease and are those of the children
\* it is through with.
C14_NestedMasterKeyIsChildKey ==
    /\ stack # <<>> => stack[1].masterKey = fragmentId
    /\ \A k \in 2..Len(stack) :
          LET p == stack[k - 1] IN
          /\ p.i <= Len(p.keys)
          /\ stack[k].masterKey = p.keys[p.i]
          /\ stack[k].masterKey # p.masterKey
    /\ \A k \in 1..Len(stack) :
          /\ InChildOrder(stack[k].data, k)
          /\ \A j \in 1..Len(stack[k].data) :
                /\ Len(stack[k].data[j].path) >= k
                /\ stack[k].data[j].path[k] <= Through(k)
                /\ \A q \in 1..(k - 1) : stack[k].data[j].path[q] = stack[q].i

C14_Witness ==
    /\ IsFragment
    /\ ~cancelled
    /\ calls = 2
    /\ hist.occurrences = 4
    /\ hist.returnedKeys = <<"1", "2", "1">>
    /\ hist.returnedPaths = <<<<1>>, <<2, 1>>, <<2, 2>>>>
    /\ result = Resolved

\* path a comes before path b in the depth-first, left-to-right traversal
Precedes(a, b) ==
    \E n \in 1..Len(a) :
       /\ n <= Len(b)
       /\ a[n] < b[n]
       /\ \A q \in 1..(n - 1) : a[q] = b[q]

\* path a is a proper prefix of path b
Within(a, b) ==
    /\ Len(a) < Len(b)
    /\ \A q \in 1..Len(a) : a[q] = b[q]

\* the paths of the leaves the activations hold, outermost first
RECURSIVE DataPaths(_)
DataPaths(stk) ==
    IF stk = <<>> THEN <<>>
    ELSE DataPaths(Below(stk)) \o [j \in 1..Len(Top(stk).data) |-> Top(stk).data[j].path]

\* the paths of the leaves held in the resolution, those on the way to the
\* caller last
HeldPaths == DataPaths(stack) \o [j \in 1..Len(InTransit) |-> InTransit[j].path]

\* C15: whatever documents the server answers and whichever requests fail,
\* the leaves held during the resolution and the leaves of the list returned
\* are the leaves of the leaf requests that succeeded, in the order of the
\* requests, and each leaf's path of child positions comes before the path of
\* every leaf after it in the depth-first, left-to-right order: a leaf reached
\* through an earlier child precedes a leaf reached through a later child.
C15_DepthFirstLeftToRight ==
    IsFragment =>
       /\ ~hist.returned =>
             LET paths == HeldPaths
                 held == DataPaths(stack)
             IN /\ HeldKeys = hist.leafLog
                /\ \A a \in 1..(Len(paths) - 1) : Precedes(paths[a], paths[a + 1])
                /\ \A a \in 1..Len(held) :
                      \/ Precedes(held[a], PathOf(stack))
                      \/ /\ reaction = ChainSettled
                         /\ held[a] = PathOf(stack) \/ Within(PathOf(stack), held[a])
                /\ \A j \in 1..Len(InTransit) : Within(PathOf(stack), InTransit[j].path)
       /\ hist.returned =>
             /\ hist.returnedKeys = hist.leafLog
             /\ Len(hist.returnedPaths) = Len(hist.returnedKeys)
             /\ \A a, b \in 1..Len(hist.returnedPaths) :
                   a < b => Precedes(hist.returnedPaths[a], hist.returnedPaths[b])

C15_Witness ==
    /\ IsFragment
    /\ hist.returned
    /\ hist.failedBranches = 1
    /\ hist.returnedKeys = <<"2", "1">>
    /\ hist.returnedPaths = <<<<1, 1>>, <<2>>>>
    /\ result = Resolved

\* C16: the requests of one resolution are made one at a time and in the
\* order of the documents.  A request is made only when every one before it
\* has settled, so never more than one is unsettled.  The activations
\* under the innermost one stand still while a child of theirs is resolved:
\* an activation goes to its next key only in a step after which it is the
\* innermost one, that is when every request of the child before, the request
\* of its leaf in the .catch included, has settled, and, for a child other
\* than the master key, only when its await of the chain resumes.  The request
\* that follows
\* is for the same key (its leaf), for the first key of that key's document,
\* or for a later position in the traversal.
C16_ChildrenInDeclaredOrder ==
    [][ IsFragment =>
          /\ hist.fetches - hist.settled \in {0, 1}
          /\ hist'.fetches - hist'.settled \in {0, 1}
          /\ hist'.fetches - hist.fetches \in {0, 1}
          /\ hist'.fetches = hist.fetches + 1 =>
                /\ hist.settled = hist.fetches
                /\ hist'.settled = hist.settled
                /\ req.wait = "settled"
          /\ \A k \in 1..Len(stack') :
                k <= Len(stack) =>
                   /\ stack'[k].keys = stack[k].keys
                   /\ stack'[k].masterKey = stack[k].masterKey
                   /\ stack'[k].i \in {stack[k].i, stack[k].i + 1}
                   /\ k < Len(stack') => stack'[k] = stack[k]
                   /\ stack'[k].i = stack[k].i + 1 =>
                         /\ hist.settled = hist.fetches
                         /\ Settles("masterleaf") \/ Resumes
          /\ (stack # <<>> /\ stack' # <<>> /\ hist'.fetches = hist.fetches + 1) =>
                /\ req'.input.key = Top(stack').keys[Top(stack').i]
                /\ \/ /\ PathOf(stack') = PathOf(stack)
                      /\ req.kind = "merge" /\ req'.kind = "leaf"
                   \/ /\ Within(PathOf(stack), PathOf(stack'))
                      /\ Len(stack') = Len(stack) + 1
                      /\ Top(stack').i = 1
                      /\ req.kind = "merge"
                   \/ /\ Precedes(PathOf(stack), PathOf(stack'))
                      /\ Len(stack') <= Len(stack)
                      /\ Settles("masterleaf") \/ Resumes
      ]_vars

C16_Witness ==
    /\ IsFragment
    /\ ~cancelled
    /\ Len(stack) = 1
    /\ stack[1].i = 2
    /\ Len(stack[1].data) = 1
    /\ stack[1].data[1].path = <<1, 1>>
    /\ hist.mergeFetches = 3
    /\ hist.leafFetches = 1
    /\ hist.settled = 4
    /\ req.kind = "merge"
    /\ req.wait = "response"

\* the body of a leaf requested in the .catch is in the data of its
\* activation and the loop has not gone on: no request is pending and the
\* position is still the one of that key
C16_LeafPushedBeforeLoop ==
    /\ IsFragment
    /\ ~cancelled
    /\ req.kind = "leaf" /\ req.wait = "settled" /\ req.ok
    /\ reaction = ChainSettled
    /\ calls = 1
    /\ Len(stack) = 1
    /\ stack[1].keys = <<"2", "1">>
    /\ stack[1].i = 1
    /\ DataKeys(stack) = <<"2">>
    /\ result = Pending

\* the same with the list of a nested activation, after the .then of its caller
C16_ListPushedBeforeLoop ==
    /\ IsFragment
    /\ ~cancelled
    /\ req.kind = "masterleaf" /\ req.wait = "settled" /\ req.ok
    /\ reaction = ChainSettled
    /\ calls = 2
    /\ Len(stack) = 1
    /\ stack[1].keys = <<"2", "1">>
    /\ stack[1].i = 1
    /\ DataKeys(stack) = <<"2">>
    /\ result = Pending

\* the token fired in such a state, and the request of the next key was made
\* with the fired token
C16_NextKeyAfterFiring ==
    /\ IsFragment
    /\ cancelled
    /\ hist.atCancel.kind = "leaf" /\ hist.atCancel.wait = "settled"
    /\ hist.atCancel.fetchNo = hist.fetches - 1
    /\ req.kind = "masterleaf" /\ req.wait = "response" /\ req.cancellable
    /\ Len(stack) = 1
    /\ stack[1].i = 2
    /\ DataKeys(stack) = <<"2">>
    /\ result = Pending

\* the activations walk a cycle of two documents: each document is one key, the
\* key of the activation before the one that reads it, and nothing but
\* documents has been received so far
OnCycle ==
    /\ IsFragment
    /\ stack # <<>>
    /\ hist.settled = calls
    /\ hist.occurrences = calls
    /\ stack[1].masterKey = fragmentId
    /\ \A k \in 1..Len(stack) :
          /\ Len(stack[k].keys) = 1
          /\ stack[k].keys[1] # stack[k].masterKey
          /\ k > 1 => /\ stack[k].masterKey = stack[k - 1].keys[1]
                      /\ stack[k].keys[1] = stack[k - 1].masterKey

\* C17: as long as the server answers every request with the next document
\* of a cycle (1.merge lists 2 and 2.merge lists 1), every document received
\* has added an activation and none has returned: at any depth the next
\* request pending is again a .merge request, no leaf has been requested, no
\* list has been returned and downloadFragment is still pending.
C17_CycleNeverReturns ==
    OnCycle =>
       /\ Len(stack) = calls
       /\ \A k \in 1..Len(stack) : stack[k].i = 1 /\ stack[k].data = <<>>
       /\ req.kind = "merge"
       /\ req.wait = "response"
       /\ reaction = NoReaction
       /\ req.input = KeyUrl(Top(stack).keys[1], "merge")
       /\ hist.fetches = Len(stack) + 1
       /\ hist.mergeFetches = Len(stack)
       /\ hist.leafFetches = 0
       /\ ~hist.returned
       /\ result = Pending

C17_Witness ==
    /\ OnCycle
    /\ Len(stack) >= 2
    /\ req.kind = "merge"
    /\ req.wait = "response"
    /\ req.input.key = stack[1].masterKey

\* the length of the longest document the server answers
LongestDoc ==
    CHOOSE n \in {Len(d.keys) : d \in MergeDocs} : \A d \in MergeDocs : Len(d.keys) <= n

\* the keys the activations have not finished, the ones being resolved included
RECURSIVE KeysLeft(_)
KeysLeft(stk) ==
    IF stk = <<>> THEN 0
    ELSE KeysLeft(Below(stk)) + (Len(Top(stk).keys) - Top(stk).i + 1)

\* the reactions already run for the current key of activation k: under the
\* innermost activation the one of the key.merge request; in the innermost
\* one, that one when the key's leaf request or the .then of the caller is
\* next, and one more when only the await of the chain is left
Spent(k) ==
    IF k < Len(stack) \/ reaction.run = "return" THEN 1
    ELSE IF reaction = ChainSettled THEN 2
    ELSE IF req.kind = "leaf" THEN 1
    ELSE 0

\* the reactions left to run at most: three for every key not finished (of
\* its .merge request; of its leaf request or the nested list; of the await of
\* the chain), less those already run, and a longest document for each
\* document the server may still answer
Work ==
    (MaxCalls - calls) * 3 * LongestDoc + 3 * KeysLeft(stack)
       - Cardinality({k \in 1..Len(stack) : Spent(k) >= 1})
       - Cardinality({k \in 1..Len(stack) : Spent(k) >= 2})

\* C18: the documents the server answers are finitely many.  While
\* downloadMergeFragment is active a request of it is pending or a reaction of
\* it is queued, and every time a reaction runs the work left to do, at least
\* zero when it starts, gets strictly smaller and stays at least zero: so when
\* every request settles the outermost activation ends, and it ends by
\* returning its list.  At every moment the requests made are at most
\* one .merge request and one .ngmesh request for each occurrence of a key in
\* the documents iterated, at most twice the occurrences in all.
C18_ResolveReturnsWithinBound ==
    [][ IsFragment =>
          /\ hist.mergeFetches <= hist.occurrences
          /\ hist.leafFetches <= hist.occurrences
          /\ hist.mergeFetches + hist.leafFetches <= 2 * hist.occurrences
          /\ (stack = <<>> /\ stack' # <<>>) => Work' >= 0
          /\ stack # <<>> =>
                /\ req.kind \in ResolveKinds
                /\ \/ /\ req.wait \in {"response", "credentials"}
                      /\ reaction = NoReaction
                      /\ ObservesCancel(req) \/ Bodies(req) # {}
                   \/ /\ req.wait = "settled"
                      /\ reaction.run \in {"request", "return", "resume"}
                /\ (Settles(req.kind) \/ Returns \/ Resumes) =>
                      /\ Work' < Work
                      /\ Work' >= 0
                /\ stack' = <<>> => (reaction'.run = "return" /\ ~PrimaryFailed')
      ]_vars

C18_Witness ==
    /\ IsFragment
    /\ ~cancelled
    /\ hist.returned
    /\ hist.occurrences = 2
    /\ hist.mergeFetches = 2
    /\ hist.leafFetches = 2
    /\ Len(hist.returnedKeys) = 1
    /\ result = Resolved

----------------------------------------------------------------------------
(* Properties: credentials and retries *)

\* the request carries the token in its Authorization header and does not
\* ask for the browser's credentials
BearerMode(init, credentials) ==
    /\ credentials # ""
    /\ init.Authorization = Bearer(credentials)
    /\ init.credentials # "include"

\* the request asks for the browser's credentials and has no Authorization header
IncludeMode(init, credentials) ==
    /\ credentials = ""
    /\ init.credentials = "include"
    /\ init.Authorization = NoHeader

\* C19: every attempt sent to an https url is in exactly one of two modes,
\* chosen by the credential it was built from: a token that is not empty is in
\* the Authorization header as Bearer <token> and credentials is not
\* 'include'; an empty token gives credentials = 'include' and no
\* Authorization header.  Both versions of applyCredentials in api.ts give
\* this for the init of the call.
C19_ExactlyOneCredentialMode ==
    IsCall =>
       \A n \in 1..Len(req.attempts) :
          LET a == req.attempts[n]
              b == applyCredentialsReplacingHeaders(a.input, a.credentials, req.init)
          IN StartsWithHttps(a.input) =>
                /\ BearerMode(a.init, a.credentials) \/ IncludeMode(a.init, a.credentials)
                /\ ~(a.init.Authorization # NoHeader /\ a.init.credentials = "include")
                /\ BearerMode(b, a.credentials) \/ IncludeMode(b, a.credentials)
                /\ a.init.method = req.init.method /\ a.init.body = req.init.body

C19_Witness ==
    /\ IsCall
    /\ StartsWithHttps(req.input)
    /\ Len(req.attempts) >= 2
    /\ BearerMode(req.attempts[1].init, "t1")
    /\ IncludeMode(req.attempts[2].init, "")

\* C20 (as claimed): an attempt that follows a failed attempt of the same call
\* is sent out of a wait (the wait for refreshed credentials, the only wait
\* the transport has), never in the step in which the failure arrives.
C20_WaitBeforeEveryReattempt ==
    [][ ( /\ IsCall
          /\ Len(req.attempts) >= 1
          /\ Len(req'.attempts) = Len(req.attempts) + 1
          /\ req'.input = req.input ) =>
              /\ AwaitingCredentials
              /\ Len(req.statuses) = Len(req.attempts)
      ]_vars

----------------------------------------------------------------------------
(* Properties: self-listed keys and the content of the list *)

\* C26: the activation that iterates the document fetched for a key K has K as
\* its master key: the fragment id for the document downloadFragment fetched,
\* the caller's current key for a nested one.  When the entry it is at is K
\* itself, the request pending is the one of the leaf K.ngmesh and never
\* K.merge, and no activation is ever nested under an entry that names the
\* key of its own document.
C26_SelfListedKeyIsLeaf ==
    IsFragment =>
       /\ stack # <<>> => stack[1].masterKey = fragmentId
       /\ \A k \in 2..Len(stack) :
             /\ stack[k].masterKey = stack[k - 1].keys[stack[k - 1].i]
             /\ stack[k - 1].keys[stack[k - 1].i] # stack[k - 1].masterKey
       /\ PendingInResolve =>
             LET f == Top(stack)
                 K == f.masterKey
             IN /\ f.keys[f.i] = K =>
                      /\ req.kind = "masterleaf"
                      /\ req.input = KeyUrl(K, "ngmesh")
                /\ req.input.suffix = "merge" => req.input.key # K

C26_Witness ==
    /\ IsFragment
    /\ Len(stack) = 2
    /\ stack[1].keys[stack[1].i] = "2"
    /\ stack[2].masterKey = "2"
    /\ stack[2].keys[stack[2].i] = "2"
    /\ req.input = KeyUrl("2", "ngmesh")
    /\ req.wait = "response"
    /\ hist.mergeFetches = 1

\* every leaf held is the body of a .ngmesh response to the request made for
\* the key at the leaf's path
RECURSIVE HeldAreLeafBodies(_)
HeldAreLeafBodies(stk) ==
    IF stk = <<>> THEN TRUE
    ELSE /\ HeldAreLeafBodies(Below(stk))
         /\ \A j \in 1..Len(Top(stk).data) :
               LET d == Top(stk).data[j] IN
               /\ [key |-> d.key, truncated |-> d.truncated] \in LeafBodies(d.key)
               /\ Len(d.path) = Len(stk) => Top(stk).keys[d.path[Len(stk)]] = d.key

\* C27: the leaves held during a resolution, and the list it returns, are the
\* bodies of the .ngmesh requests that succeeded, each once and in the order
\* of the requests: as many as leaf requests were made less those that failed
\* and the one not received yet, each at a path of its own, each the body answered for
\* the key at its path; the response of a .merge request is never among them.
C27_ListIsSuccessfulLeafBodies ==
    IsFragment =>
       /\ ~hist.returned =>
             LET paths == HeldPaths IN
             /\ HeldKeys = hist.leafLog
             /\ Len(paths) = hist.leafFetches - hist.failedBranches
                                - hist.masterLeafFailures
                                - (IF req.kind \in {"masterleaf", "leaf"} /\ ~Reacted
                                   THEN 1 ELSE 0)
             /\ \A a, b \in 1..Len(paths) : a # b => paths[a] # paths[b]
             /\ HeldAreLeafBodies(stack)
             /\ \A j \in 1..Len(InTransit) :
                   [key |-> InTransit[j].key, truncated |-> InTransit[j].truncated]
                      \in LeafBodies(InTransit[j].key)
       /\ hist.returned =>
             /\ hist.returnedKeys = hist.leafLog
             /\ Len(hist.returnedKeys) = hist.leafFetches - hist.failedBranches
                                            - hist.masterLeafFailures
             /\ Len(hist.returnedPaths) = Len(hist.returnedKeys)
             /\ \A a, b \in 1..Len(hist.returnedPaths) :
                   a # b => hist.returnedPaths[a] # hist.returnedPaths[b]

C27_Witness ==
    /\ IsFragment
    /\ hist.returned
    /\ hist.mergeFetches = 2
    /\ calls = 2
    /\ hist.leafFetches = 3
    /\ hist.masterLeafFailures = 1
    /\ Len(hist.returnedKeys) = 2
    /\ hist.returnedKeys[1] = hist.returnedKeys[2]

----------------------------------------------------------------------------
(* Properties: credentials over the attempts of a call *)

\* C28: an attempt sent to a url that does not start with https carries no
\* Authorization header and does not ask for the browser's credentials,
\* whatever token it was built from; both versions of applyCredentials leave
\* the init of such a call as it is.
C28_NoCredentialWithoutHttps ==
    IsCall =>
       \A n \in 1..Len(req.attempts) :
          LET a == req.attempts[n]
              b == applyCredentialsReplacingHeaders(a.input, a.credentials, req.init)
          IN ~StartsWithHttps(a.input) =>
                /\ a.init.Authorization = NoHeader
                /\ a.init.credentials # "include"
                /\ a.init = req.init
                /\ b = req.init

C28_Witness ==
    /\ IsCall
    /\ ~StartsWithHttps(req.input)
    /\ Len(req.attempts) = 3
    /\ req.attempts[1].credentials = "t1"
    /\ req.attempts[2].credentials = "t2"
    /\ req.attempts[3].credentials = ""
    /\ req.attempts[2].init.Authorization = NoHeader

\* C29: the init of the call stays as makeRequestWithCredentials built it,
\* without header and without credentials, through every attempt; each
\* attempt is applyCredentials of that init and of the credentials of the
\* attempt, so its Authorization header, when it has one, holds the token of
\* this attempt and never the token of an attempt before it; an attempt
\* follows the one before with the same credentials (a retry) or with those
\* of the next refresh, and the last one has the credentials the call holds.
C29_AttemptsBuiltFromUnchangedInit ==
    IsCall =>
       /\ req.init.Authorization = NoHeader
       /\ req.init.credentials = "default"
       /\ \A n \in 1..Len(req.attempts) :
             LET a == req.attempts[n] IN
             /\ a.init = applyCredentials(a.input, a.credentials, req.init)
             /\ a.init.Authorization \in {NoHeader, Bearer(a.credentials)}
             /\ a.credentials = "" => a.init.Authorization = NoHeader
             /\ n > 1 =>
                   \/ /\ a.generation = req.attempts[n - 1].generation
                      /\ a.credentials = req.attempts[n - 1].credentials
                   \/ a.generation = req.attempts[n - 1].generation + 1
       /\ Len(req.attempts) >= 1 =>
             /\ req.attempts[Len(req.attempts)].credentials = req.credentials.token
             /\ req.attempts[Len(req.attempts)].generation = req.credentials.generation

C29_Witness ==
    /\ IsCall
    /\ StartsWithHttps(req.input)
    /\ Len(req.attempts) = 3
    /\ req.attempts[1].init.Authorization = Bearer("t1")
    /\ req.attempts[2].init.Authorization = Bearer("t2")
    /\ req.attempts[3].init.Authorization = NoHeader
    /\ req.attempts[3].init.credentials = "include"
    /\ req.refreshes = 2

----------------------------------------------------------------------------
(* Properties: the binary fragment decoders *)

\* the responses held were decoded together / alone, and the chunk was assigned
MergedAssigned == fragment.state = "assigned" /\ fragment.by = "decodeFragmentChunkM"
OneAssigned == fragment.state = "assigned" /\ fragment.by = "decodeFragmentChunk"

\* the count in the header of a response, its own index stream, and the place
\* of its contribution in the merged arrays
CountOf(response) == getUint32(response, 0, TRUE)
IndexCountOf(response) == (Len(response) - 4 - 12 * CountOf(response)) \div 4
OwnIndex(response, j) ==
    getUint32(response, 4 + 12 * CountOf(response) + 4 * (j - 1), TRUE)
OwnPosition(response, k) == getUint32(response, 4 + 4 * (k - 1), TRUE)
RECURSIVE VerticesBefore(_, _)
VerticesBefore(dataArray, n) ==
    IF n = 1 THEN 0 ELSE VerticesBefore(dataArray, n - 1) + CountOf(dataArray[n - 1])
RECURSIVE IndicesBefore(_, _)
IndicesBefore(dataArray, n) ==
    IF n = 1 THEN 0 ELSE IndicesBefore(dataArray, n - 1) + IndexCountOf(dataArray[n - 1])

\* the response decodes on its own, with the count of its own header
Decodable(response) ==
    /\ Len(response) >= 4
    /\ decodeTriangleVertexPositionsAndIndices(response, TRUE, 4, CountOf(response)).state
          = "decoded"

\* the indices of a response are below its declared vertex count
IndicesInRange(response) ==
    \A j \in 1..IndexCountOf(response) : OwnIndex(response, j) < CountOf(response)

\* C21: decodeFragmentChunkM assigns only when every response decodes on its
\* own; in the index buffer it assigns, the j-th index of response n is its
\* own value raised by the vertex counts of the responses
\* before it; for a response whose indices are below its count it lies in
\* [offset_n, offset_n + v_n), with offset_1 = 0
C21_MergedIndicesOffsetByVerticesBefore ==
    MergedAssigned =>
        /\ \A n \in 1..Len(buffers) : Decodable(buffers[n])
        /\ Len(fragment.indices) = IndicesBefore(buffers, Len(buffers) + 1)
        /\ \A n \in 1..Len(buffers) :
              LET offset == VerticesBefore(buffers, n) IN
              /\ n = 1 => offset = 0
              /\ \A j \in 1..IndexCountOf(buffers[n]) :
                    LET merged == fragment.indices[IndicesBefore(buffers, n) + j] IN
                    /\ merged = OwnIndex(buffers[n], j) + offset
                    /\ IndicesInRange(buffers[n]) =>
                          /\ offset <= merged
                          /\ merged < offset + CountOf(buffers[n])

\* a leaf of 3 vertices and a leaf of 2 vertices with a triangle over its
\* vertices 0 and 1: they became 3 and 4
C21_Witness ==
    /\ MergedAssigned
    /\ Len(buffers) = 2
    /\ CountOf(buffers[1]) = 3
    /\ CountOf(buffers[2]) = 2
    /\ IndexCountOf(buffers[1]) = 3
    /\ IndexCountOf(buffers[2]) = 3
    /\ <<OwnIndex(buffers[2], 1), OwnIndex(buffers[2], 2)>> = <<0, 1>>
    /\ <<fragment.indices[4], fragment.indices[5]>> = <<3, 4>>

\* the count a little-endian header of four bytes at offset 0 encodes
HeaderLE(response) ==
    response[1] + 256 * response[2] + 65536 * response[3] + 16777216 * response[4]

\* C22: decodeFragmentChunkM takes one vertex count per response, in the order
\* of the responses, from the little-endian header at offset 0; the vertex
\* buffer it assigns holds the sum of the counts, the positions of every
\* response in the order of the responses, coincident vertices included
C22_MergedVerticesConcatenated ==
    MergedAssigned =>
        /\ \A n \in 1..Len(buffers) : Decodable(buffers[n])
        /\ Len(numVerticesArray(buffers)) = Len(buffers)
        /\ \A n \in 1..Len(buffers) : numVerticesArray(buffers)[n] = HeaderLE(buffers[n])
        /\ Len(fragment.vertexPositions) = 3 * VerticesBefore(buffers, Len(buffers) + 1)
        /\ \A n \in 1..Len(buffers) :
              \A k \in 1..(3 * HeaderLE(buffers[n])) :
                 fragment.vertexPositions[3 * VerticesBefore(buffers, n) + k]
                    = OwnPosition(buffers[n], k)

\* two responses of 2 and 3 vertices whose first vertices coincide: the merged
\* buffer holds 5 vertices, the coincident one twice
C22_Witness ==
    /\ MergedAssigned
    /\ Len(buffers) = 2
    /\ HeaderLE(buffers[1]) = 2
    /\ HeaderLE(buffers[2]) = 3
    /\ \A k \in 1..3 : OwnPosition(buffers[1], k) = OwnPosition(buffers[2], k)
    /\ Len(fragment.vertexPositions) = 15
    /\ SubSeq(fragment.vertexPositions, 1, 3) = SubSeq(fragment.vertexPositions, 7, 9)

\* the response decodeFragmentChunk was given is what a conforming encoder
\* wrote for this leaf
DecodedAloneFrom(leaf) ==
    /\ fragment.state # "none"
    /\ fragment.by = "decodeFragmentChunk"
    /\ buffers = <<Encode(leaf)>>

\* C23: decodeFragmentChunk on the bytes a conforming encoder wrote (the
\* little-endian count N, N vertex triples, M indices below N with M divisible
\* by 3) assigns exactly the N triples and the M indices, in their order
C23_DecodeInvertsConformingEncoder ==
    \A leaf \in LeafShapes :
        Conforming(leaf) /\ DecodedAloneFrom(leaf) =>
            /\ fragment.state = "assigned"
            /\ fragment.vertexPositions = leaf.positions
            /\ fragment.indices = leaf.indices

\* the header 03 00 00 00, 36 bytes of positions and the indices 0, 1, 2, each
\* on four bytes: 3 vertices and the triangle <<0, 1, 2>>
C23_Witness ==
    /\ OneAssigned
    /\ Len(buffers[1]) = 52
    /\ SubSeq(buffers[1], 1, 4) = <<3, 0, 0, 0>>
    /\ SubSeq(buffers[1], 41, 52) = <<0, 0, 0, 0, 1, 0, 0, 0, 2, 0, 0, 0>>
    /\ Len(fragment.vertexPositions) = 9
    /\ fragment.indices = <<0, 1, 2>>

\* the header of the response declares more vertices than its bytes hold
DeclaresTooMany(response) == 4 + 12 * HeaderLE(response) > Len(response)
\* the words after the declared vertices are no whole number of triangles
IndexStreamNotTriples(response) ==
    /\ ~DeclaresTooMany(response)
    /\ ((Len(response) - 4 - 12 * HeaderLE(response)) \div 4) % 3 # 0

\* C24: decodeFragmentChunk throws and assigns nothing to the chunk when the
\* header declares more vertices than the buffer holds and when the index
\* stream is not a multiple of 3 long
C24_MalformedLeafThrows ==
    (/\ fragment.state # "none"
     /\ fragment.by = "decodeFragmentChunk"
     /\ Len(buffers[1]) >= 4
     /\ DeclaresTooMany(buffers[1]) \/ IndexStreamNotTriples(buffers[1]))
    => /\ fragment.state = "threw"
       /\ fragment.error \in {"RangeError", "Error"}

\* a response whose index stream holds two indices was rejected
C24_Witness ==
    /\ fragment.state = "threw"
    /\ fragment.by = "decodeFragmentChunk"
    /\ fragment.error = "Error"
    /\ Len(buffers[1]) >= 4
    /\ HeaderLE(buffers[1]) = 2
    /\ IndexStreamNotTriples(buffers[1])

\* the other case: a response declaring 3 vertices and holding 2 was rejected
C24_TruncatedRejected ==
    /\ fragment.state = "threw"
    /\ fragment.by = "decodeFragmentChunk"
    /\ fragment.error = "RangeError"
    /\ Len(buffers[1]) >= 4
    /\ HeaderLE(buffers[1]) = 3
    /\ DeclaresTooMany(buffers[1])

----------------------------------------------------------------------------
(* Properties: downloadMetadata *)

MetadataCalled == req # NoReq /\ req.kind = "metadata"
\* the request has settled and the callbacks of .then have run
MetadataSettled == MetadataCalled /\ Reacted

\* C30: when the request of downloadMetadata failed, for whatever reason, or
\* answered an empty array, chunk.annotation is null and the promise is
\* resolved; the promise rejects only after a fulfilled request; an annotation
\* is assigned only as parseAnnotation of the first element of the response
C30_MetadataRequestFailureGivesNull ==
    /\ (MetadataSettled /\ ~req.ok) => annotation = Null /\ result = Resolved
    /\ (MetadataSettled /\ req.ok /\ hist.response.shape = "array"
           /\ hist.response.elements = <<>>)
         => annotation = Null /\ result = Resolved
    /\ (MetadataCalled /\ result.state = "rejected") => (MetadataSettled /\ req.ok)
    /\ (MetadataCalled /\ ~MetadataSettled) => annotation = Unset /\ result = Pending
    /\ (MetadataCalled /\ result = Pending) => ~MetadataSettled
    /\ annotation.state = "annotation" =>
          /\ MetadataSettled /\ req.ok
          /\ hist.response.shape = "array"
          /\ Len(hist.response.elements) > 0
          /\ annotation = parseAnnotation(hist.response.elements[1]).value

\* the request was rejected after a refresh of the credentials and a fatal
\* answer: the annotation is null and the promise resolved
C30_Witness ==
    /\ MetadataSettled
    /\ ~req.ok
    /\ req.error.kind = "http"
    /\ req.refreshes > 0
    /\ annotation = Null
    /\ result = Resolved

\* other cases: a cancelled request; an annotation taken from the first of two
\* elements; a promise rejected by a malformed first element
C30_CancelledGivesNull ==
    MetadataSettled /\ ~req.ok /\ req.error.kind = "cancel" /\ annotation = Null
    /\ result = Resolved
C30_FirstOfTwo ==
    MetadataSettled /\ annotation.state = "annotation" /\ Len(hist.response.elements) = 2
C30_RejectedByParse ==
    MetadataSettled /\ req.ok /\ result = Rejected(DecodeError) /\ annotation = Unset
\* a 'body ID' that is no number rejects the promise for a Note and is not
\* read for another kind
C30_RejectedByBodyId ==
    /\ MetadataSettled /\ req.ok /\ result = Rejected(DecodeError) /\ annotation = Unset
    /\ Len(hist.response.elements) > 0
    /\ hist.response.elements[1] =
          [present |-> TRUE, Kind |-> "Note", Pos |-> "1_2_3",
           Prop |-> [object |-> TRUE, bodyID |-> "abc"]]
C30_BodyIdNotRead ==
    /\ MetadataSettled /\ result = Resolved
    /\ Len(hist.response.elements) > 0
    /\ hist.response.elements[1].present
    /\ hist.response.elements[1].Prop.bodyID = "abc"
    /\ annotation = [state |-> "annotation", kind |-> "PostSyn", id |-> "1_2_3",
                     relatedSegments |-> <<<<>>>>]
C30_BodyIdParsed ==
    /\ MetadataSettled /\ result = Resolved
    /\ annotation = [state |-> "annotation", kind |-> "Note", id |-> "1_2_3",
                     relatedSegments |-> <<<<7>>>>]

----------------------------------------------------------------------------
(* Properties: two interleaved calls *)

\* the call's list and geometry come from its own responses, and a
\* cancellation it shows is one of its own token
OwnOutcome(c) ==
    LET resolving ==
           c.result = Resolved \/ (c.result = Pending /\ c.reaction = Adopts(Resolved))
    IN
    /\ ~c.hist.returned => HeldKeysOf(c.stack, c.reaction) = c.hist.leafLog
    /\ c.hist.returned => c.hist.returnedKeys = c.hist.leafLog
    /\ c.hist.decodedM =>
          resolving /\ c.chunk = [assigned |-> 1, geometry |-> c.hist.returnedKeys]
    /\ (resolving /\ ~c.hist.decodedM) =>
          c.chunk = [assigned |-> 1, geometry |-> <<fragmentId>>]
    /\ ~resolving => c.chunk = [assigned |-> 0, geometry |-> <<>>]
    /\ c.result = Rejected(CancelError) => c.cancelled
    /\ c.hist.cancelSeenAt # "none" => c.cancelled

Swapped == peer' = Active /\ Active' = peer

\* C25: with two downloadFragment calls interleaved between their microtask
\* turns in every way, a turn of one call leaves the other call as it was (its
\* token, its pending request, its queued reaction, its leaves, its chunk, its
\* promise), and each call's leaves, geometry and cancellation are those of
\* its own responses and token
C25_InterleavedCallsIsolated ==
    [][ /\ peer' = peer \/ Swapped
        /\ OwnOutcome(Active')
        /\ OwnOutcome(peer') ]_vars

\* one call resolved with the two leaves of its document after the other,
\* which had a leaf of its own document already, was cancelled and rejected
\* with the cancellation
C25_Witness ==
    /\ result = Resolved
    /\ hist.decodedM
    /\ Len(chunk.geometry) = 2
    /\ ~cancelled
    /\ peer.result = Rejected(CancelError)
    /\ peer.cancelled
    /\ peer.calls = 1
    /\ Len(peer.hist.leafLog) = 1
    /\ peer.hist.atCancel.fetchNo = 3
    /\ peer.chunk.assigned = 0

\* between the turns: both calls have received their leaf and neither
\* reaction has run; both chunks are assigned and neither promise has settled
C25_BothReceived ==
    /\ req # NoReq /\ peer.req # NoReq
    /\ req.kind = "masterleaf" /\ peer.req.kind = "masterleaf"
    /\ reaction.run = "request" /\ peer.reaction.run = "request"
    /\ Len(stack) = 1 /\ Len(peer.stack) = 1
    /\ result = Pending /\ peer.result = Pending
C25_BothAssigned ==
    /\ chunk.assigned = 1 /\ peer.chunk.assigned = 1
    /\ stack = <<>> /\ peer.stack = <<>>
    /\ result = Pending /\ peer.result = Pending

----------------------------------------------------------------------------
(* Properties: add, update and delete *)

Uploadable == edit.user \notin {NoUser, ""} /\ edit.annotation.type = "POINT"
Requested == hist.fetches > 0

\* C31 (as claimed): add and update make their POST request only with a
\* non-empty user and a point annotation, and otherwise make no request and
\* resolve with the id built locally; delete makes its DELETE request whatever
\* the user is
C31_UploadOnlyWhenUploadable ==
    /\ edit.op \in {"add", "update"} =>
          /\ Requested => Uploadable /\ req.init.method = "POST"
          /\ ~Uploadable =>
                /\ ~Requested
                /\ result = ResolvedWith(LocalId(edit.annotation))
    /\ edit.op = "delete" => Requested /\ req.init.method = "DELETE"

\* the case that departs: add of an annotation that is no point
C31_AddOfNonPointThrows ==
    /\ edit.op = "add"
    /\ edit.annotation.type # "POINT"
    /\ result = Thrown(TypeError)
    /\ ~Requested

\* what holds of the code: no request but with a user and a point; without
\* them update resolves locally, and add does so for a point
C31_NoRequestUnlessUploadable ==
    /\ edit.op \in {"add", "update"} =>
          /\ Requested => Uploadable /\ req.init.method = "POST"
          /\ ~Uploadable =>
                /\ ~Requested
                /\ (edit.op = "update" \/ edit.annotation.type = "POINT") =>
                      result = ResolvedWith(LocalId(edit.annotation))
                /\ (edit.op = "add" /\ edit.annotation.type # "POINT") =>
                      result = Thrown(TypeError)
    /\ edit.op = "delete" => Requested /\ req.init.method = "DELETE"

====
